---- MODULE Spec2Model ----
(***************************************************************************)
(* Verification model of the pool monitor of sol_poolway:                  *)
(*   MonitorService (services/monitor.ts): start / stop / processPool,     *)
(*   withRetry (utils/rpc.ts) as used by OrcaService.getPoolData and       *)
(*   getTicksData, DatabaseService.cleanup, and main's SIGINT handler;     *)
(* and of the interval collector (index.ts): startDataCollection, its      *)
(*   setInterval callback and collectData;                                 *)
(* and of the sink (services/database.ts): savePoolData and saveTicksData  *)
(*   against the three tables of the store;                                *)
(* and of withRetry (utils/rpc.ts) on its own, for any maxRetries and fn,   *)
(*   the tick loop of OrcaService.getTicksData (services/orca.ts), and     *)
(*   DatabaseService.testConnection with its connection handlers.          *)
(* The RPC node and the database are external: every call to them may      *)
(* succeed or fail, and the model draws that outcome nondeterministically. *)
(***************************************************************************)
EXTENDS Integers, Sequences, FiniteSets, TLC

(* ---------------- program constants ---------------- *)
MAX_RETRY_DELAY == 60000
BASE_RETRY_DELAY == 1000
FETCH_INTERVAL == 120000
BATCH_SIZE == 3
MAX_RETRIES == 5
\* COLLECTION_CONFIG.INTERVAL and COLLECTION_CONFIG.MIN_COLLECTION_INTERVAL
INTERVAL == 15000
MIN_COLLECTION_INTERVAL == 10000
\* RPC_CONFIG.RETRY_DELAY
RETRY_DELAY == 2000
\* DatabaseService.MAX_RETRIES, DatabaseService.RETRY_DELAY
DB_MAX_RETRIES == 5
DB_RETRY_DELAY == 5000
\* getTicksData: tickArraySize, numArrays
tickArraySize == 88
numArrays == 10
\* retryDelays = {}: a pool id with no entry reads as undefined
Undefined == -1

(* ---------------- bounds of the model ---------------- *)
\* concurrently live start() invocations the model can hold
MaxLoops == 2
\* pools configured in the main-program scenario (more than one batch)
NumPools == 4
\* start() calls in the API-level scenario
MaxStarts == 2
\* stop() calls / SIGINT deliveries
MaxStops == 2
\* collection cycles begun in the main-program scenario
MaxCycles == 2
\* failing external calls in the scenarios that limit them (a fetch that fails
\* counts once, whatever the number of its attempts)
MaxFails == 1
\* collection cycles begun in the single-pool scenario
BackoffCycles == 7
\* longest configured pool list of the pool-list scenarios
MaxListLen == 6
\* clock ticks of the monitor's discrete clock in the timed scenario
MaxTicks == 5
\* concurrently live collectData() runs the model can hold
MaxRuns == 2
\* longest poolsData array returned to the interval collector
MaxSnapshots == 2
\* clock ticks of the interval collector's discrete clock
MaxCollectorTicks == 9
\* distinct primary keys the snapshots and ticks handed to the sink can carry
NumKeys == 2
\* distinct values the non-key fields of a snapshot or tick can carry
NumVals == 2
\* longest ITickData[] handed to saveTicksData
MaxTickList == 2
\* largest maxRetries handed to withRetry when it is driven on its own
MaxRetriesArg == 5
\* getTicksData on its own: |pool.tickCurrentIndex| and the small tick spacings
MaxCurrentTick == 1
MaxTickSpacing == 2
\* connect events of pg-promise while the connection test is driven on its own
MaxConnectEvents == 2

Max(a, b) == IF a > b THEN a ELSE b
Min(a, b) == IF a < b THEN a ELSE b

Loops == 1..MaxLoops
Runs == 1..MaxRuns

\* resolution of the monitor's discrete clock and of the collector's
TimeStep == FETCH_INTERVAL \div 2
CollectorTimeStep == MIN_COLLECTION_INTERVAL \div 2
\* Date.now() when the process starts: far from the epoch
StartTime == 10 * FETCH_INTERVAL

VARIABLES
  cfg,            \* the run's configuration and environment budget (never changes)
  now,            \* Date.now()
  isRunning,      \* MonitorService.isRunning
  retryDelays,    \* MonitorService.retryDelays: pool id -> delay or Undefined
  lpc,            \* per start() invocation: where it is suspended
  li,             \* per start() invocation: the for-loop index i of the batch awaited
  startTime,      \* per start() invocation: startTime of its current cycle
  elapsed,        \* per start() invocation: elapsed as last computed
  ppc,            \* per start() invocation and pool: where processPool is suspended
  sleepMs,        \* per processPool: the argument of its backoff sleep (0: no sleep)
  tries,          \* per processPool: withRetry's loop index i of the fetch in flight
  saw429,         \* history: per processPool, an attempt of one of its fetches
                  \*          before the attempt in flight rejected with status 429
  written,        \* per processPool: the kinds of rows it has written this cycle
  failedAt,       \* per processPool: the step whose error reached the catch block
  poolEndCalls,   \* number of db.$pool.end() calls issued by cleanup()
  onEndedPool,    \* the database calls in flight that were issued after $pool.end():
                  \* <<l, 0>> ensureTablesExist of invocation l, <<l, p>> the save of
                  \* its processPool(p)
  sigintPending,  \* a SIGINT handler is awaiting monitorService.stop()
  exited,         \* process.exit was called
  streak,         \* history: per pool, rate-limited failures since the last success
  stoppedInCycle, \* history: per start() invocation, stop() was called in its cycle
  processed,      \* history: per start() invocation, the pools whose processPool
                  \*          was called in its current cycle, in call order
  ensureCalls,    \* history: per start() invocation, its ensureTablesExist() calls
  schemaReady,    \* history: per start() invocation, ensureTablesExist() resolved
  delayAtCall,    \* history: per processPool, the stored delay of its pool when it
                  \*          was called
  fetchedIn,      \* history: per start() invocation, the pools whose getPoolData
                  \*          was called in its current cycle
  stops, starts, cycles, fails,  \* counters capped by cfg
  \* the interval collector (index.ts)
  cpc,            \* where startDataCollection is: "ensure", "first", "armed", "fatal"
  lastSuccessfulCollection,
  nextFire,       \* the time the setInterval timer fires next
  rpc,            \* per collectData run: where it is suspended
  rn,             \* per collectData run: poolsData.length
  rk,             \* per collectData run: index of the poolsData element being saved
  rticks,         \* history: per collectData run, saveTicksData was called
  rfailedAt,      \* history: per collectData run, the call whose error was caught
  lastTick,       \* history: what the latest timer tick did: "skipped", "collected"
  \* the sink (services/database.ts) and the store behind it
  sinkUse,        \* the method the caller of this run uses, "none": the sink is not
                  \* driven directly
  poolTable,      \* solana_pool_data: the committed rows
  priceTable,     \* solana_price_data: the committed rows
  ticksTable,     \* solana_ticks_data: the committed rows
  spc,            \* where the call in flight is: "idle", "insertPool", "insertPrice",
                  \* "commit", "insertTicks"
  sarg,           \* the argument of the call in flight
  txPool,         \* solana_pool_data as the open transaction sees it
  txPrice,        \* solana_price_data as the open transaction sees it
  sresult,        \* how the latest call ended: "none", "resolved", "rejected"
  serror,         \* history: the error the store raised in the latest call
  sthrown,        \* the error the latest call rejected with
  sWrites,        \* history: db.tx / db.none calls issued by the latest call
  sfailedAt,      \* history: the statement of the latest call that the store failed
  sOverwrote,     \* history: the latest call replaced a row that held other values
  \* withRetry (utils/rpc.ts) driven on its own
  wmax,           \* the argument maxRetries
  wdelay,         \* the argument delay
  wpc,            \* where the call is: "idle", "fn", "wait", "resolved", "rejected"
  wi,             \* the loop index i
  wlastError,     \* lastError
  wresult,        \* the value the call resolved with, or the error it rejected with
  wouts,          \* history: how each fn() call ended, in call order
  wwaits,         \* history: the delay of each setTimeout awaited, in order
  \* the callback of OrcaService.getTicksData (services/orca.ts) driven on its own
  currentTick,    \* pool.tickCurrentIndex
  tickSpacing,    \* poolConfig.tickSpacing
  gpc,            \* where the callback is: "idle", "loop", "returned"
  tickIndex,      \* the loop variable tickIndex
  timestamp,      \* the Date made before the loop
  ticksArr,       \* the array ticks
  \* DatabaseService's connection test (services/database.ts) driven on its own
  isConnected,    \* DatabaseService.isConnected
  retryCount,     \* DatabaseService.retryCount
  dpc,            \* where testConnection is: "idle", "query" (awaiting db.one),
                  \* "timer" (a retry is scheduled), "connected", "gaveUp"
  dtimer,         \* the delay of the pending setTimeout, 0: none is pending
  connAttempts,   \* history: calls of testConnection
  connectEvents,  \* history: connect events of pg-promise
  failsInARow     \* history: failed attempts since the latest connect event

\* the configured pool ids of the run: Object.keys(POOLS)
PoolIds == 1..Len(cfg.pools)

\* locals and history of a start() invocation that change only with its batches
loopLocals == <<li, sleepMs, processed, startTime, ensureCalls, schemaReady,
                delayAtCall, fetchedIn>>
collectorVars == <<cpc, lastSuccessfulCollection, nextFire, rpc, rn, rk, rticks,
                   rfailedAt, lastTick>>
sinkVars == <<sinkUse, poolTable, priceTable, ticksTable, spc, sarg, txPool, txPrice,
              sresult, serror, sthrown, sWrites, sfailedAt, sOverwrote>>
retryVars == <<wmax, wdelay, wpc, wi, wlastError, wresult, wouts, wwaits>>
ticksVars == <<currentTick, tickSpacing, gpc, tickIndex, timestamp, ticksArr>>
connVars == <<isConnected, retryCount, dpc, dtimer, connAttempts, connectEvents,
              failsInARow>>
\* the units that are driven on their own
unitVars == <<retryVars, ticksVars, connVars>>
\* the state of the monitor, the clock apart
monitorVars == <<cfg, isRunning, retryDelays, lpc, li, startTime, elapsed, ppc, sleepMs,
                 tries, saw429, written, failedAt, poolEndCalls, onEndedPool,
                 sigintPending,
                 exited, streak, stoppedInCycle, processed, ensureCalls, schemaReady,
                 delayAtCall, fetchedIn, stops, starts, cycles, fails>>

vars == <<cfg, now, isRunning, retryDelays, lpc, li, startTime, elapsed, ppc, sleepMs,
          tries, saw429, written, failedAt, poolEndCalls, onEndedPool,
          sigintPending, exited,
          streak, stoppedInCycle, processed, ensureCalls, schemaReady, delayAtCall,
          fetchedIn, stops, starts, cycles, fails, collectorVars, sinkVars, unitVars>>

\* the pool list of the main-program scenario: Object.keys(POOLS), in order
AllPools == [k \in 1..NumPools |-> k]

\* the program as main() runs it: start() once, every configured pool; the RPC node
\* and the database answer every call (a call on an ended pool apart)
MainScenario ==
  [pools |-> AllPools, maxStarts |-> 1, maxStops |-> MaxStops,
   maxCycles |-> MaxCycles, limitFails |-> TRUE, maxFails |-> 0,
   timed |-> FALSE]
\* one pool over many cycles, with no limit on the failures of the RPC node
BackoffScenario ==
  [pools |-> <<1>>, maxStarts |-> 1, maxStops |-> MaxStops,
   maxCycles |-> BackoffCycles, limitFails |-> FALSE, maxFails |-> 0,
   timed |-> FALSE]
\* the exported monitorService driven by any caller: start() and stop() interleaved
ApiScenario ==
  [pools |-> <<1>>, maxStarts |-> MaxStarts, maxStops |-> MaxStops,
   maxCycles |-> MaxCycles, limitFails |-> FALSE, maxFails |-> 0,
   timed |-> FALSE]
\* the same with two pools and a reliable environment
RestartScenario ==
  [pools |-> <<1, 2>>, maxStarts |-> MaxStarts, maxStops |-> 1,
   maxCycles |-> MaxCycles, limitFails |-> TRUE, maxFails |-> 0,
   timed |-> FALSE]
\* a pool list of every length from the empty list on, start() once
ListScenario(n) ==
  [pools |-> [k \in 1..n |-> k], maxStarts |-> 1, maxStops |-> 0,
   maxCycles |-> MaxCycles, limitFails |-> TRUE, maxFails |-> MaxFails,
   timed |-> FALSE]
\* one pool under the discrete clock
TimedScenario ==
  [pools |-> <<1>>, maxStarts |-> MaxStarts, maxStops |-> 1,
   maxCycles |-> MaxCycles, limitFails |-> TRUE, maxFails |-> 0,
   timed |-> TRUE]
Scenarios ==
  {MainScenario, BackoffScenario, ApiScenario, RestartScenario, TimedScenario}
    \cup {ListScenario(n) : n \in 0..MaxListLen}

\* faulty variant: a member that ended on a rate-limit error never counts as settled
TerminalNoRateLimited == {"ok", "error"}
\* faulty variant: a member still sleeping on its backoff counts as settled
TerminalOrSleeping == {"ok", "rateLimited", "error", "sleep"}
\* faulty variant: only a member that succeeded counts as settled
TerminalSuccessOnly == {"ok"}

\* processPool has returned: with success, after a 429, after another error
Terminal == {"ok", "rateLimited", "error"}
InFlight == {"sleep", "getPool", "savePool", "getTicks", "saveTicks"}

\* the interval collector before startDataCollection() runs
CollectorInit ==
  /\ cpc = "ensure"
  /\ lastSuccessfulCollection = 0
  /\ nextFire = 0
  /\ rpc = [r \in Runs |-> "idle"]
  /\ rn = [r \in Runs |-> 0]
  /\ rk = [r \in Runs |-> 0]
  /\ rticks = [r \in Runs |-> FALSE]
  /\ rfailedAt = [r \in Runs |-> "none"]
  /\ lastTick = "none"

\* no error, no argument
NoError == "none"
NoArg == <<>>

\* the store after ensureTablesExist on an empty database, no call in flight
SinkInit ==
  /\ poolTable = {} /\ priceTable = {} /\ ticksTable = {}
  /\ spc = "idle" /\ sarg = NoArg
  /\ txPool = {} /\ txPrice = {}
  /\ sresult = "none" /\ serror = NoError /\ sthrown = NoError
  /\ sWrites = 0 /\ sfailedAt = "none" /\ sOverwrote = FALSE

\* the process before main() or startDataCollection() runs
ProgramInit ==
  /\ SinkInit
  /\ cfg \in Scenarios
  /\ now = StartTime
  /\ isRunning = FALSE
  /\ retryDelays = [p \in PoolIds |-> Undefined]
  /\ lpc = [l \in Loops |-> "idle"]
  /\ li = [l \in Loops |-> 0]
  /\ startTime = [l \in Loops |-> 0]
  /\ elapsed = [l \in Loops |-> 0]
  /\ ppc = [l \in Loops |-> [p \in PoolIds |-> "idle"]]
  /\ sleepMs = [l \in Loops |-> [p \in PoolIds |-> 0]]
  /\ tries = [l \in Loops |-> [p \in PoolIds |-> 0]]
  /\ saw429 = [l \in Loops |-> [p \in PoolIds |-> FALSE]]
  /\ written = [l \in Loops |-> [p \in PoolIds |-> {}]]
  /\ failedAt = [l \in Loops |-> [p \in PoolIds |-> "none"]]
  /\ poolEndCalls = 0
  /\ onEndedPool = {}
  /\ sigintPending = FALSE
  /\ exited = FALSE
  /\ streak = [p \in PoolIds |-> 0]
  /\ stoppedInCycle = [l \in Loops |-> FALSE]
  /\ processed = [l \in Loops |-> <<>>]
  /\ ensureCalls = [l \in Loops |-> 0]
  /\ schemaReady = [l \in Loops |-> FALSE]
  /\ delayAtCall = [l \in Loops |-> [p \in PoolIds |-> Undefined]]
  /\ fetchedIn = [l \in Loops |-> {}]
  /\ stops = 0 /\ starts = 0 /\ cycles = 0 /\ fails = 0
  /\ CollectorInit

\* withRetry has not been called
NoResult == "none"
RetryIdle ==
  /\ wmax = 0 /\ wdelay = 0 /\ wpc = "idle" /\ wi = 0
  /\ wlastError = "null" /\ wresult = NoResult /\ wouts = <<>> /\ wwaits = <<>>
\* getTicksData's callback has not been entered
TicksIdle ==
  /\ currentTick = 0 /\ tickSpacing = 1 /\ gpc = "idle" /\ tickIndex = 0
  /\ timestamp = 0 /\ ticksArr = <<>>
\* the connection test is not driven
ConnIdle ==
  /\ isConnected = FALSE /\ retryCount = 0 /\ dpc = "idle" /\ dtimer = 0
  /\ connAttempts = 0 /\ connectEvents = 0 /\ failsInARow = 0
\* no unit is driven on its own
UnitsIdle == RetryIdle /\ TicksIdle /\ ConnIdle

Init == sinkUse = "none" /\ UnitsIdle /\ ProgramInit

(* ---------------- pure helpers ---------------- *)
\* JavaScript truthiness of a number | undefined
Truthy(d) == d # Undefined /\ d # 0
\* d || dflt
OrElse(d, dflt) == IF Truthy(d) THEN d ELSE dflt

\* error?.context?.statusCode === 429
IsRateLimit(err) == err = "http429"
\* errors the RPC client can raise; database errors carry no statusCode
RpcErrors == {"http429", "other"}

\* faulty variant: the first rate-limited failure stores the base delay undoubled
NextRetryDelayNoDouble(d) ==
  IF Truthy(d) THEN Min(d * 2, MAX_RETRY_DELAY) ELSE BASE_RETRY_DELAY
\* faulty variant: the Math.min cap is missing
NextRetryDelayNoCap(d) == OrElse(d, BASE_RETRY_DELAY) * 2

\* Math.min((retryDelays[poolId] || BASE_RETRY_DELAY) * 2, MAX_RETRY_DELAY)
NextRetryDelay(d) == Min(OrElse(d, BASE_RETRY_DELAY) * 2, MAX_RETRY_DELAY)

\* faulty variant: the catch block escalates on every error, not only on status 429
CatchDelayAnyError(d, err) == Min(OrElse(d, BASE_RETRY_DELAY) * 2, MAX_RETRY_DELAY)

\* the catch block of processPool: the delay it leaves for an error err
CatchDelay(d, err) == IF IsRateLimit(err) THEN NextRetryDelay(d) ELSE d

\* faulty variant: off by one, a sixth attempt is made
ShouldRetryOffByOne(i) == i < MAX_RETRIES

\* withRetry: attempt i (0-based) failed; is another attempt made?
ShouldRetry(i) == i < MAX_RETRIES - 1

\* faulty variant: the transaction's second insert (the price row) is missing
SavePoolRowsNoPrice == {"pool"}

\* rows written by one successful savePoolData transaction / saveTicksData statement
SavePoolRows == {"pool", "price"}
SaveTicksRows == {"ticks"}


\* faulty variant: the fetch is issued at once, whatever the stored delay
FirstStepNoWait(p) == "getPool"

\* first suspension point of processPool: the backoff sleep, or the pool fetch
FirstStep(p) == IF Truthy(retryDelays[p]) THEN "sleep" ELSE "getPool"

\* environment budget: may one more external call fail? (a fetch that fails counts
\* once, with its first attempt)
CanFail == ~cfg.limitFails \/ fails < cfg.maxFails
CountFail == fails' = IF cfg.limitFails THEN fails + 1 ELSE fails
CanFailAttempt(i) == i > 0 \/ CanFail
CountFailAttempt(i) == fails' = IF cfg.limitFails /\ i = 0 THEN fails + 1 ELSE fails

\* faulty variant: no concurrency limit, every remaining pool is started at once
BatchUnbounded(i) == {cfg.pools[k] : k \in (i + 1)..Len(cfg.pools)}
\* faulty variant: the slice is one element too long, batches overlap
BatchOverlap(i) ==
  {cfg.pools[k] : k \in (i + 1)..Min(i + BATCH_SIZE + 1, Len(cfg.pools))}

\* pools.slice(i, i + BATCH_SIZE), as a set and as the array it is
Batch(i) == {cfg.pools[k] : k \in (i + 1)..Min(i + BATCH_SIZE, Len(cfg.pools))}
Slice(i) == SubSeq(cfg.pools, i + 1, Min(i + BATCH_SIZE, Len(cfg.pools)))

\* faulty variant: the remainder is not subtracted, a full interval is always waited
WaitTimeFullInterval(e) == FETCH_INTERVAL

\* Math.max(0, this.FETCH_INTERVAL - elapsed)
WaitTime(e) == Max(0, FETCH_INTERVAL - e)

NoPools == [p \in PoolIds |-> "idle"]

\* a database call issued now: pg-promise rejects every call made on a pool whose
\* end() has been called
IssueDbCall(c) ==
  onEndedPool' = IF poolEndCalls > 0 THEN onEndedPool \cup {c} ELSE onEndedPool
\* the database call c has been rejected
DbCallRejected(c) == onEndedPool' = onEndedPool \ {c}

(* ---------------- MonitorService.start ---------------- *)
\* batch.map(poolId => this.processPool(poolId)) for the batch at index i, then
\* await Promise.all: every member runs synchronously to its first await
StartBatch(l, i) ==
  /\ lpc' = [lpc EXCEPT ![l] = "batch"]
  /\ li' = [li EXCEPT ![l] = i]
  /\ ppc' = [ppc EXCEPT ![l] =
               [p \in PoolIds |-> IF p \in Batch(i) THEN FirstStep(p) ELSE "idle"]]
  /\ sleepMs' = [sleepMs EXCEPT ![l] =
               [p \in PoolIds |->
                  IF p \in Batch(i) /\ FirstStep(p) = "sleep" THEN retryDelays[p] ELSE 0]]
  /\ processed' = [processed EXCEPT ![l] = IF i = 0 THEN Slice(i) ELSE @ \o Slice(i)]
  /\ startTime' = [startTime EXCEPT ![l] = IF i = 0 THEN now ELSE @]
  /\ ensureCalls' = ensureCalls
  /\ schemaReady' = [schemaReady EXCEPT ![l] = @ \/ lpc[l] = "ensure"]
  /\ delayAtCall' = [delayAtCall EXCEPT ![l] =
               [p \in PoolIds |-> IF p \in Batch(i) THEN retryDelays[p] ELSE Undefined]]
  /\ fetchedIn' = [fetchedIn EXCEPT ![l] =
               (IF i = 0 THEN {} ELSE @) \cup {p \in Batch(i) : FirstStep(p) = "getPool"}]
  /\ tries' = [tries EXCEPT ![l] = [p \in PoolIds |-> 0]]
  /\ saw429' = [saw429 EXCEPT ![l] = [p \in PoolIds |-> FALSE]]
  /\ written' = [written EXCEPT ![l] = [p \in PoolIds |-> {}]]
  /\ failedAt' = [failedAt EXCEPT ![l] = [p \in PoolIds |-> "none"]]

\* start() returns: the invocation is gone
Return(l) ==
  /\ lpc' = [lpc EXCEPT ![l] = "idle"]
  /\ li' = [li EXCEPT ![l] = 0]
  /\ ppc' = [ppc EXCEPT ![l] = NoPools]
  /\ sleepMs' = [sleepMs EXCEPT ![l] = [p \in PoolIds |-> 0]]
  /\ processed' = [processed EXCEPT ![l] = <<>>]
  /\ startTime' = [startTime EXCEPT ![l] = 0]
  /\ ensureCalls' = [ensureCalls EXCEPT ![l] = 0]
  /\ schemaReady' = [schemaReady EXCEPT ![l] = FALSE]
  /\ delayAtCall' = [delayAtCall EXCEPT ![l] = [p \in PoolIds |-> Undefined]]
  /\ fetchedIn' = [fetchedIn EXCEPT ![l] = {}]
  /\ tries' = [tries EXCEPT ![l] = [p \in PoolIds |-> 0]]
  /\ saw429' = [saw429 EXCEPT ![l] = [p \in PoolIds |-> FALSE]]
  /\ written' = [written EXCEPT ![l] = [p \in PoolIds |-> {}]]
  /\ failedAt' = [failedAt EXCEPT ![l] = [p \in PoolIds |-> "none"]]

\* faulty variant: the loop condition is not read, the next cycle always begins
WhileCheckNoRecheck(l) ==
  /\ stoppedInCycle' = [stoppedInCycle EXCEPT ![l] = FALSE]
  /\ cycles < cfg.maxCycles
  /\ cycles' = cycles + 1
  /\ StartBatch(l, 0)

\* while (this.isRunning) { startTime; pools; first batch ... }, evaluated without
\* suspension by whoever resumes the loop
WhileCheck(l) ==
  /\ stoppedInCycle' = [stoppedInCycle EXCEPT ![l] = FALSE]
  /\ IF isRunning
       THEN /\ cycles < cfg.maxCycles
            /\ cycles' = cycles + 1
            /\ StartBatch(l, 0)
       ELSE /\ cycles' = cycles
            /\ Return(l)

\* faulty variant: the schema setup is called before the isRunning guard
StartAlreadyRunningAfterSetup ==
  /\ ~exited /\ isRunning /\ starts < cfg.maxStarts
  /\ starts' = starts + 1
  /\ ensureCalls' = [l \in Loops |-> IF lpc[l] # "idle" THEN ensureCalls[l] + 1 ELSE 0]
  /\ UNCHANGED <<sinkVars, unitVars, cfg, onEndedPool, collectorVars, now, elapsed,
                 isRunning, retryDelays, lpc, li, sleepMs, processed, startTime,
                 schemaReady, delayAtCall, fetchedIn, ppc, tries, saw429, written, failedAt,
                 poolEndCalls, sigintPending, exited, streak, stoppedInCycle,
                 stops, cycles, fails>>

\* start() with isRunning set: warn and return
StartAlreadyRunning ==
  /\ ~exited /\ isRunning /\ starts < cfg.maxStarts
  /\ starts' = starts + 1
  /\ UNCHANGED <<sinkVars, unitVars, cfg, onEndedPool, collectorVars, now, elapsed,
                 isRunning, retryDelays, lpc, loopLocals, ppc, tries, saw429, written, failedAt,
                 poolEndCalls, sigintPending, exited, streak, stoppedInCycle,
                 stops, cycles, fails>>

\* faulty variant: the loop is entered without awaiting ensureTablesExist()
StartNoEnsure ==
  /\ ~exited /\ ~isRunning /\ starts < cfg.maxStarts
  /\ cycles < cfg.maxCycles
  /\ \E l \in Loops :
       /\ lpc[l] = "idle"
       /\ \A k \in Loops : lpc[k] = "idle" => l <= k
       /\ StartBatch(l, 0)
  /\ isRunning' = TRUE
  /\ starts' = starts + 1
  /\ cycles' = cycles + 1
  /\ UNCHANGED <<sinkVars, unitVars, cfg, onEndedPool, collectorVars, now, elapsed, retryDelays,
                 poolEndCalls, sigintPending, exited, streak, stoppedInCycle,
                 stops, fails>>

\* start() with isRunning clear: set it and await ensureTablesExist()
Start ==
  /\ ~exited /\ ~isRunning /\ starts < cfg.maxStarts
  /\ \E l \in Loops :
       /\ lpc[l] = "idle"
       /\ \A k \in Loops : lpc[k] = "idle" => l <= k
       /\ lpc' = [lpc EXCEPT ![l] = "ensure"]
       /\ ensureCalls' = [ensureCalls EXCEPT ![l] = @ + 1]
       /\ IssueDbCall(<<l, 0>>)
  /\ isRunning' = TRUE
  /\ starts' = starts + 1
  /\ UNCHANGED <<sinkVars, unitVars, cfg, collectorVars, now, elapsed,
                 retryDelays, li, sleepMs, processed, startTime, schemaReady,
                 delayAtCall, fetchedIn, ppc, tries, saw429, written, failedAt,
                 poolEndCalls, sigintPending, exited, streak, stoppedInCycle,
                 stops, cycles, fails>>

\* ensureTablesExist() resolves: enter the while loop
EnsureTablesExistOk(l) ==
  /\ ~exited /\ lpc[l] = "ensure" /\ <<l, 0>> \notin onEndedPool
  /\ WhileCheck(l)
  /\ UNCHANGED <<sinkVars, unitVars, cfg, onEndedPool, collectorVars, now, elapsed,
                 isRunning, retryDelays, poolEndCalls, sigintPending, exited,
                 streak, stops, starts, fails>>

\* ensureTablesExist() rejects: catch, isRunning = false, start() returns
EnsureTablesExistFail(l) ==
  /\ ~exited /\ lpc[l] = "ensure" /\ (CanFail \/ <<l, 0>> \in onEndedPool)
  /\ IF <<l, 0>> \in onEndedPool THEN fails' = fails ELSE CountFail
  /\ DbCallRejected(<<l, 0>>)
  /\ isRunning' = FALSE
  /\ Return(l)
  /\ UNCHANGED <<sinkVars, unitVars, cfg, collectorVars, now, elapsed,
                 retryDelays, poolEndCalls, sigintPending, exited,
                 streak, stoppedInCycle, stops, starts, cycles>>

\* Promise.all of the batch resolved and another batch follows
BatchDoneNext(l) ==
  /\ ~exited /\ lpc[l] = "batch"
  /\ \A p \in Batch(li[l]) : ppc[l][p] \in Terminal
  /\ li[l] + BATCH_SIZE < Len(cfg.pools)
  /\ StartBatch(l, li[l] + BATCH_SIZE)
  /\ UNCHANGED <<sinkVars, unitVars, cfg, onEndedPool, collectorVars, now, elapsed,
                 isRunning, retryDelays, poolEndCalls, sigintPending, exited,
                 streak, stoppedInCycle, stops, starts, cycles, fails>>

\* the time at which the sleep(waitTime) of invocation l is over
WakeTime(l) == startTime[l] + elapsed[l] + WaitTime(elapsed[l])

\* the clock advances while some start() invocation is live; a sleep that is over
\* resumes before the clock moves on
Tick ==
  /\ ~exited /\ cfg.timed
  /\ now < StartTime + MaxTicks * TimeStep
  /\ \E l \in Loops : lpc[l] # "idle"
  /\ \A l \in Loops : lpc[l] = "sleep" => now < WakeTime(l)
  /\ now' = now + TimeStep
  /\ UNCHANGED <<sinkVars, unitVars, cfg, onEndedPool, collectorVars, elapsed,
                 isRunning, retryDelays, lpc, loopLocals, ppc, tries, saw429, written, failedAt,
                 poolEndCalls, sigintPending, exited, streak, stoppedInCycle,
                 stops, starts, cycles, fails>>

\* last batch resolved, waitTime > 0 && this.isRunning: await sleep(waitTime)
CycleDoneSleep(l) ==
  /\ ~exited /\ lpc[l] = "batch"
  /\ \A p \in Batch(li[l]) : ppc[l][p] \in Terminal
  /\ ~(li[l] + BATCH_SIZE < Len(cfg.pools))
  /\ isRunning
  /\ cfg.timed => WaitTime(now - startTime[l]) > 0
  /\ elapsed' = [elapsed EXCEPT ![l] = now - startTime[l]]
  /\ lpc' = [lpc EXCEPT ![l] = "sleep"]
  /\ ppc' = [ppc EXCEPT ![l] = NoPools]
  /\ sleepMs' = [sleepMs EXCEPT ![l] = [p \in PoolIds |-> 0]]
  /\ written' = [written EXCEPT ![l] = [p \in PoolIds |-> {}]]
  /\ failedAt' = [failedAt EXCEPT ![l] = [p \in PoolIds |-> "none"]]
  /\ UNCHANGED <<sinkVars, unitVars, cfg, onEndedPool, collectorVars, now,
                 isRunning, retryDelays, li, processed, startTime, ensureCalls,
                 schemaReady, delayAtCall, fetchedIn, tries, saw429, poolEndCalls, sigintPending,
                 exited, streak, stoppedInCycle, stops, starts, cycles, fails>>

\* last batch resolved and no sleep (waitTime = 0, or isRunning clear): back to
\* the while condition at once
CycleDoneNoSleep(l) ==
  /\ ~exited /\ lpc[l] = "batch"
  /\ \A p \in Batch(li[l]) : ppc[l][p] \in Terminal
  /\ ~(li[l] + BATCH_SIZE < Len(cfg.pools))
  /\ cfg.timed => ~(WaitTime(now - startTime[l]) > 0 /\ isRunning)
  /\ elapsed' = [elapsed EXCEPT ![l] = now - startTime[l]]
  /\ WhileCheck(l)
  /\ UNCHANGED <<sinkVars, unitVars, cfg, onEndedPool, collectorVars, now,
                 isRunning, retryDelays, poolEndCalls, sigintPending, exited,
                 streak, stops, starts, fails>>

\* the end-of-cycle sleep is over: back to the while condition
EndSleep(l) ==
  /\ ~exited /\ lpc[l] = "sleep"
  /\ cfg.timed => now >= WakeTime(l)
  /\ WhileCheck(l)
  /\ UNCHANGED <<sinkVars, unitVars, cfg, onEndedPool, collectorVars, now, elapsed,
                 isRunning, retryDelays, poolEndCalls, sigintPending, exited,
                 streak, stops, starts, fails>>

(* ---------------- MonitorService.processPool ---------------- *)
\* faulty variant: the catch block escalates the delay of every pool
CatchSharedDelay(l, p, step, err) ==
  /\ retryDelays' = [q \in PoolIds |-> CatchDelay(retryDelays[q], err)]
  /\ streak' = [streak EXCEPT ![p] = IF IsRateLimit(err) THEN @ + 1 ELSE @]
  /\ ppc' = [ppc EXCEPT ![l][p] = IF IsRateLimit(err) THEN "rateLimited" ELSE "error"]
  /\ failedAt' = [failedAt EXCEPT ![l][p] = step]
  /\ tries' = [tries EXCEPT ![l][p] = 0]
  /\ saw429' = saw429

\* the catch block: escalate the delay on a rate-limit error, else only log
Catch(l, p, step, err) ==
  /\ retryDelays' = [retryDelays EXCEPT ![p] = CatchDelay(retryDelays[p], err)]
  /\ streak' = [streak EXCEPT ![p] = IF IsRateLimit(err) THEN @ + 1 ELSE @]
  /\ ppc' = [ppc EXCEPT ![l][p] = IF IsRateLimit(err) THEN "rateLimited" ELSE "error"]
  /\ failedAt' = [failedAt EXCEPT ![l][p] = step]
  /\ tries' = [tries EXCEPT ![l][p] = 0]
  /\ saw429' = saw429

\* await sleep(this.retryDelays[poolId]) is over: issue getPoolData
BackoffSleepDone(l, p) ==
  /\ ~exited /\ ppc[l][p] = "sleep"
  /\ ppc' = [ppc EXCEPT ![l][p] = "getPool"]
  /\ fetchedIn' = [fetchedIn EXCEPT ![l] = @ \cup {p}]
  /\ UNCHANGED <<sinkVars, unitVars, cfg, onEndedPool, collectorVars, now, elapsed,
                 isRunning, retryDelays, lpc, li, sleepMs, processed, startTime,
                 ensureCalls, schemaReady, delayAtCall, tries, saw429, written, failedAt,
                 poolEndCalls, sigintPending, exited, streak, stoppedInCycle,
                 stops, starts, cycles, fails>>

\* an attempt of withRetry's fn succeeds: the fetch resolves, the next step is issued
FetchOk(l, p, step, next) ==
  /\ ~exited /\ ppc[l][p] = step
  /\ ppc' = [ppc EXCEPT ![l][p] = next]
  /\ tries' = [tries EXCEPT ![l][p] = 0]
  /\ saw429' = saw429
  /\ IssueDbCall(<<l, p>>)
  /\ UNCHANGED <<sinkVars, unitVars, cfg, collectorVars, now, elapsed,
                 isRunning, retryDelays, lpc, loopLocals, written, failedAt,
                 poolEndCalls, sigintPending, exited, streak, stoppedInCycle,
                 stops, starts, cycles, fails>>

\* faulty variant: every attempt rejected with 429 escalates the delay at once
FetchRetryEscalates(l, p, step, err) ==
  /\ ~exited /\ ppc[l][p] = step /\ CanFailAttempt(tries[l][p])
  /\ ShouldRetry(tries[l][p])
  /\ tries' = [tries EXCEPT ![l][p] = @ + 1]
  /\ saw429' = [saw429 EXCEPT ![l][p] = @ \/ IsRateLimit(err)]
  /\ CountFailAttempt(tries[l][p])
  /\ retryDelays' = [retryDelays EXCEPT ![p] = CatchDelay(retryDelays[p], err)]
  /\ UNCHANGED <<sinkVars, unitVars, cfg, onEndedPool, collectorVars, now, elapsed,
                 isRunning, lpc, loopLocals, ppc, written, failedAt,
                 poolEndCalls, sigintPending, exited, streak, stoppedInCycle,
                 stops, starts, cycles>>

\* an attempt fails with err and withRetry makes another one after its delay
FetchRetry(l, p, step, err) ==
  /\ ~exited /\ ppc[l][p] = step /\ CanFailAttempt(tries[l][p])
  /\ ShouldRetry(tries[l][p])
  /\ tries' = [tries EXCEPT ![l][p] = @ + 1]
  /\ saw429' = [saw429 EXCEPT ![l][p] = @ \/ IsRateLimit(err)]
  /\ CountFailAttempt(tries[l][p])
  /\ UNCHANGED <<sinkVars, unitVars, cfg, onEndedPool, collectorVars, now, elapsed,
                 isRunning, retryDelays, lpc, loopLocals, ppc, written, failedAt,
                 poolEndCalls, sigintPending, exited, streak, stoppedInCycle,
                 stops, starts, cycles>>

\* the last attempt fails: withRetry throws lastError into processPool's catch
FetchFail(l, p, step, err) ==
  /\ ~exited /\ ppc[l][p] = step /\ CanFailAttempt(tries[l][p])
  /\ ~ShouldRetry(tries[l][p])
  /\ Catch(l, p, step, err)
  /\ CountFailAttempt(tries[l][p])
  /\ UNCHANGED <<sinkVars, unitVars, cfg, onEndedPool, collectorVars, now, elapsed,
                 isRunning, lpc, loopLocals, written,
                 poolEndCalls, sigintPending, exited, stoppedInCycle,
                 stops, starts, cycles>>

\* faulty variant: the ticks are fetched as soon as the pool state is there
GetPoolDataOkSkipsSave(l, p) == FetchOk(l, p, "getPool", "getTicks")
GetPoolDataOk(l, p) == FetchOk(l, p, "getPool", "savePool")
GetPoolDataRetry(l, p, err) == FetchRetry(l, p, "getPool", err)
GetPoolDataFail(l, p, err) == FetchFail(l, p, "getPool", err)

GetTicksDataOk(l, p) == FetchOk(l, p, "getTicks", "saveTicks")
GetTicksDataRetry(l, p, err) == FetchRetry(l, p, "getTicks", err)
GetTicksDataFail(l, p, err) == FetchFail(l, p, "getTicks", err)

\* savePoolData resolves: the transaction wrote the pool row and the price row
SavePoolDataOk(l, p) ==
  /\ ~exited /\ ppc[l][p] = "savePool" /\ <<l, p>> \notin onEndedPool
  /\ written' = [written EXCEPT ![l][p] = @ \cup SavePoolRows]
  /\ ppc' = [ppc EXCEPT ![l][p] = "getTicks"]
  /\ UNCHANGED <<sinkVars, unitVars, cfg, onEndedPool, collectorVars, now, elapsed,
                 isRunning, retryDelays, lpc, loopLocals, tries, saw429, failedAt,
                 poolEndCalls, sigintPending, exited, streak, stoppedInCycle,
                 stops, starts, cycles, fails>>

\* savePoolData rejects (the transaction is rolled back): catch
SavePoolDataFail(l, p) ==
  /\ ~exited /\ ppc[l][p] = "savePool" /\ (CanFail \/ <<l, p>> \in onEndedPool)
  /\ Catch(l, p, "savePool", "other")
  /\ IF <<l, p>> \in onEndedPool THEN fails' = fails ELSE CountFail
  /\ DbCallRejected(<<l, p>>)
  /\ UNCHANGED <<sinkVars, unitVars, cfg, collectorVars, now, elapsed,
                 isRunning, lpc, loopLocals, written,
                 poolEndCalls, sigintPending, exited, stoppedInCycle,
                 stops, starts, cycles>>

\* faulty variant: the delay is not reset on success
SaveTicksDataOkNoReset(l, p) ==
  /\ ~exited /\ ppc[l][p] = "saveTicks" /\ <<l, p>> \notin onEndedPool
  /\ written' = [written EXCEPT ![l][p] = @ \cup SaveTicksRows]
  /\ ppc' = [ppc EXCEPT ![l][p] = "ok"]
  /\ UNCHANGED <<sinkVars, unitVars, cfg, onEndedPool, collectorVars, now, elapsed, retryDelays, streak,
                 isRunning, lpc, loopLocals, tries, saw429, failedAt,
                 poolEndCalls, sigintPending, exited, stoppedInCycle,
                 stops, starts, cycles, fails>>

\* saveTicksData resolves; this.retryDelays[poolId] = 0; processPool returns
SaveTicksDataOk(l, p) ==
  /\ ~exited /\ ppc[l][p] = "saveTicks" /\ <<l, p>> \notin onEndedPool
  /\ written' = [written EXCEPT ![l][p] = @ \cup SaveTicksRows]
  /\ retryDelays' = [retryDelays EXCEPT ![p] = 0]
  /\ streak' = [streak EXCEPT ![p] = 0]
  /\ ppc' = [ppc EXCEPT ![l][p] = "ok"]
  /\ UNCHANGED <<sinkVars, unitVars, cfg, onEndedPool, collectorVars, now, elapsed,
                 isRunning, lpc, loopLocals, tries, saw429, failedAt,
                 poolEndCalls, sigintPending, exited, stoppedInCycle,
                 stops, starts, cycles, fails>>

\* saveTicksData rejects: catch
SaveTicksDataFail(l, p) ==
  /\ ~exited /\ ppc[l][p] = "saveTicks" /\ (CanFail \/ <<l, p>> \in onEndedPool)
  /\ Catch(l, p, "saveTicks", "other")
  /\ IF <<l, p>> \in onEndedPool THEN fails' = fails ELSE CountFail
  /\ DbCallRejected(<<l, p>>)
  /\ UNCHANGED <<sinkVars, unitVars, cfg, collectorVars, now, elapsed,
                 isRunning, lpc, loopLocals, written,
                 poolEndCalls, sigintPending, exited, stoppedInCycle,
                 stops, starts, cycles>>

(* ---------------- stop, cleanup, SIGINT ---------------- *)
\* DatabaseService.cleanup: await this.db.$pool.end(), issued on every call
Cleanup == poolEndCalls' = poolEndCalls + 1

\* faulty variant: stop() closes the pool and leaves the running flag set
StopBodyKeepsFlag ==
  /\ isRunning' = isRunning
  /\ Cleanup
  /\ stoppedInCycle' = [l \in Loops |-> stoppedInCycle[l] \/ lpc[l] = "batch"]
  /\ stops' = stops + 1

\* the synchronous part of stop(): clear the flag, call cleanup()
StopBody ==
  /\ isRunning' = FALSE
  /\ Cleanup
  /\ stoppedInCycle' = [l \in Loops |-> stoppedInCycle[l] \/ lpc[l] = "batch"]
  /\ stops' = stops + 1

\* monitorService.stop() called directly
Stop ==
  /\ ~exited /\ stops < cfg.maxStops
  /\ StopBody
  /\ UNCHANGED <<sinkVars, unitVars, cfg, onEndedPool, collectorVars, now, elapsed,
                 retryDelays, lpc, loopLocals, ppc, tries, saw429, written, failedAt,
                 sigintPending, exited, streak, starts, cycles, fails>>

\* SIGINT delivered: the handler calls stop() and awaits it
Sigint ==
  /\ ~exited /\ stops < cfg.maxStops
  /\ StopBody
  /\ sigintPending' = TRUE
  /\ UNCHANGED <<sinkVars, unitVars, cfg, onEndedPool, collectorVars, now, elapsed,
                 retryDelays, lpc, loopLocals, ppc, tries, saw429, written, failedAt,
                 exited, streak, starts, cycles, fails>>

\* the handler's stop() resolved: process.exit(0)
ProcessExit ==
  /\ ~exited /\ sigintPending
  /\ exited' = TRUE
  /\ UNCHANGED <<sinkVars, unitVars, cfg, onEndedPool, collectorVars, now, elapsed,
                 isRunning, retryDelays, lpc, loopLocals, ppc, tries, saw429, written, failedAt,
                 poolEndCalls, sigintPending, streak, stoppedInCycle,
                 stops, starts, cycles, fails>>

\* SIGTERM delivered: main registers a listener for SIGINT only, so the default
\* disposition ends the process at once: no stop(), no cleanup(); main has called
\* start() by the time a signal can be handled
Sigterm ==
  /\ ~exited /\ starts >= 1
  /\ exited' = TRUE
  /\ UNCHANGED <<sinkVars, unitVars, cfg, onEndedPool, collectorVars, now, elapsed,
                 isRunning, retryDelays, lpc, loopLocals, ppc, tries, saw429, written, failedAt,
                 poolEndCalls, sigintPending, streak, stoppedInCycle,
                 stops, starts, cycles, fails>>

Next ==
  \/ Tick
  \/ StartAlreadyRunning
  \/ Start
  \/ Stop
  \/ Sigint
  \/ Sigterm
  \/ ProcessExit
  \/ \E l \in Loops :
       \/ EnsureTablesExistOk(l)
       \/ EnsureTablesExistFail(l)
       \/ BatchDoneNext(l)
       \/ CycleDoneSleep(l)
       \/ CycleDoneNoSleep(l)
       \/ EndSleep(l)
       \/ \E p \in PoolIds :
            \/ BackoffSleepDone(l, p)
            \/ GetPoolDataOk(l, p)
            \/ \E err \in RpcErrors : GetPoolDataRetry(l, p, err)
            \/ \E err \in RpcErrors : GetPoolDataFail(l, p, err)
            \/ SavePoolDataOk(l, p)
            \/ SavePoolDataFail(l, p)
            \/ GetTicksDataOk(l, p)
            \/ \E err \in RpcErrors : GetTicksDataRetry(l, p, err)
            \/ \E err \in RpcErrors : GetTicksDataFail(l, p, err)
            \/ SaveTicksDataOk(l, p)
            \/ SaveTicksDataFail(l, p)

Spec == Init /\ [][Next]_vars

\* a promise awaited by a start() invocation or by one of its processPool calls
\* settles and the awaiting code resumes: the schema setup, a batch, the end-of-cycle
\* sleep, a backoff sleep, an attempt of a fetch, a sink write
Completes ==
  \E l \in Loops :
    \/ EnsureTablesExistOk(l)
    \/ EnsureTablesExistFail(l)
    \/ BatchDoneNext(l)
    \/ CycleDoneSleep(l)
    \/ CycleDoneNoSleep(l)
    \/ EndSleep(l)
    \/ \E p \in PoolIds :
         \/ BackoffSleepDone(l, p)
         \/ GetPoolDataOk(l, p)
         \/ \E err \in RpcErrors : GetPoolDataRetry(l, p, err)
         \/ \E err \in RpcErrors : GetPoolDataFail(l, p, err)
         \/ SavePoolDataOk(l, p)
         \/ SavePoolDataFail(l, p)
         \/ GetTicksDataOk(l, p)
         \/ \E err \in RpcErrors : GetTicksDataRetry(l, p, err)
         \/ \E err \in RpcErrors : GetTicksDataFail(l, p, err)
         \/ SaveTicksDataOk(l, p)
         \/ SaveTicksDataFail(l, p)

\* the runs checked for progress: the scenarios that call stop(), and a list of two
\* batches with a failing environment and no stop()
LiveScenarios ==
  {MainScenario, BackoffScenario, ApiScenario, RestartScenario, TimedScenario,
   ListScenario(BATCH_SIZE + 1)}
LiveInit == Init /\ cfg \in LiveScenarios

\* the monitor under the assumption that no awaited promise stays pending for ever
LiveSpec == LiveInit /\ [][Next]_vars /\ WF_vars(Completes)

(* ---------------- the interval collector (index.ts) ---------------- *)
\* only the collector runs: the monitor of this process is never started
CollectorSpecInit == Init /\ cfg = MainScenario

RunEnded == {"done", "failed"}

\* collectData() is called in slot r: it runs to its first await, getAllPoolsData()
CollectData(r) ==
  /\ rpc' = [rpc EXCEPT ![r] = "getAllPools"]
  /\ rn' = [rn EXCEPT ![r] = 0]
  /\ rk' = [rk EXCEPT ![r] = 0]
  /\ rticks' = [rticks EXCEPT ![r] = FALSE]
  /\ rfailedAt' = [rfailedAt EXCEPT ![r] = "none"]

\* the catch block of collectData: log, return
CollectDataCatch(r, call) ==
  /\ rpc' = [rpc EXCEPT ![r] = "failed"]
  /\ rfailedAt' = [rfailedAt EXCEPT ![r] = call]

\* the returned promise has been consumed: the slot is free again
RunGone(r) ==
  /\ rpc' = [rpc EXCEPT ![r] = "idle"]
  /\ rn' = [rn EXCEPT ![r] = 0]
  /\ rk' = [rk EXCEPT ![r] = 0]
  /\ rticks' = [rticks EXCEPT ![r] = FALSE]
  /\ rfailedAt' = [rfailedAt EXCEPT ![r] = "none"]

\* startDataCollection: ensureTablesExist() resolves, collectData() is called
CollectorEnsureOk ==
  /\ cpc = "ensure"
  /\ cpc' = "first"
  /\ CollectData(1)
  /\ UNCHANGED <<sinkVars, unitVars, now, monitorVars, lastSuccessfulCollection, nextFire, lastTick>>

\* startDataCollection: ensureTablesExist() rejects: cleanup, process.exit(1)
CollectorEnsureFail ==
  /\ cpc = "ensure"
  /\ cpc' = "fatal"
  /\ UNCHANGED <<sinkVars, unitVars, now, monitorVars, lastSuccessfulCollection, nextFire, rpc, rn, rk,
                 rticks, rfailedAt, lastTick>>

\* the first collectData() has returned: setInterval(callback, INTERVAL)
FirstCollectDone ==
  /\ cpc = "first" /\ rpc[1] \in RunEnded
  /\ cpc' = "armed"
  /\ nextFire' = now + INTERVAL
  /\ RunGone(1)
  /\ UNCHANGED <<sinkVars, unitVars, now, monitorVars, lastSuccessfulCollection, lastTick>>

\* getAllPoolsData() resolves with n snapshots: the first savePoolData is awaited,
\* or with an empty array getAllTicksData()
GetAllPoolsDataOk(r, n) ==
  /\ cpc # "fatal" /\ rpc[r] = "getAllPools"
  /\ rn' = [rn EXCEPT ![r] = n]
  /\ rk' = [rk EXCEPT ![r] = IF n > 0 THEN 1 ELSE 0]
  /\ rpc' = [rpc EXCEPT ![r] = IF n > 0 THEN "savePool" ELSE "getAllTicks"]
  /\ UNCHANGED <<sinkVars, unitVars, now, monitorVars, cpc, lastSuccessfulCollection, nextFire, rticks,
                 rfailedAt, lastTick>>

GetAllPoolsDataFail(r) ==
  /\ cpc # "fatal" /\ rpc[r] = "getAllPools"
  /\ CollectDataCatch(r, "getAllPools")
  /\ UNCHANGED <<sinkVars, unitVars, now, monitorVars, cpc, lastSuccessfulCollection, nextFire, rn, rk,
                 rticks, lastTick>>

\* for (const poolData of poolsData): is there an element after the k-th?
MoreToSave(k, n) == k < n

\* await dbService.savePoolData(poolData) resolves: next element, or getAllTicksData()
CollectorSavePoolDataOk(r) ==
  /\ cpc # "fatal" /\ rpc[r] = "savePool"
  /\ IF MoreToSave(rk[r], rn[r])
       THEN rk' = [rk EXCEPT ![r] = @ + 1] /\ rpc' = rpc
       ELSE rk' = rk /\ rpc' = [rpc EXCEPT ![r] = "getAllTicks"]
  /\ UNCHANGED <<sinkVars, unitVars, now, monitorVars, cpc, lastSuccessfulCollection, nextFire, rn,
                 rticks, rfailedAt, lastTick>>

\* savePoolData rejects: the error leaves the for loop for collectData's catch
CollectorSavePoolDataFail(r) ==
  /\ cpc # "fatal" /\ rpc[r] = "savePool"
  /\ CollectDataCatch(r, "savePool")
  /\ UNCHANGED <<sinkVars, unitVars, now, monitorVars, cpc, lastSuccessfulCollection, nextFire, rn, rk,
                 rticks, lastTick>>

\* faulty variant: the timestamp is written once the fetches are done, before the
\* ticks are saved
GetAllTicksDataOkStampsEarly(r) ==
  /\ cpc # "fatal" /\ rpc[r] = "getAllTicks"
  /\ rpc' = [rpc EXCEPT ![r] = "saveTicks"]
  /\ rticks' = [rticks EXCEPT ![r] = TRUE]
  /\ lastSuccessfulCollection' = now
  /\ UNCHANGED <<sinkVars, unitVars, now, monitorVars, cpc, nextFire, rn, rk,
                 rfailedAt, lastTick>>

\* getAllTicksData() resolves: saveTicksData(ticksData) is awaited
GetAllTicksDataOk(r) ==
  /\ cpc # "fatal" /\ rpc[r] = "getAllTicks"
  /\ rpc' = [rpc EXCEPT ![r] = "saveTicks"]
  /\ rticks' = [rticks EXCEPT ![r] = TRUE]
  /\ UNCHANGED <<sinkVars, unitVars, now, monitorVars, cpc, lastSuccessfulCollection, nextFire, rn, rk,
                 rfailedAt, lastTick>>

GetAllTicksDataFail(r) ==
  /\ cpc # "fatal" /\ rpc[r] = "getAllTicks"
  /\ CollectDataCatch(r, "getAllTicks")
  /\ UNCHANGED <<sinkVars, unitVars, now, monitorVars, cpc, lastSuccessfulCollection, nextFire, rn, rk,
                 rticks, lastTick>>

\* saveTicksData resolves: lastSuccessfulCollection = Date.now(); return
CollectorSaveTicksDataOk(r) ==
  /\ cpc # "fatal" /\ rpc[r] = "saveTicks"
  /\ lastSuccessfulCollection' = now
  /\ rpc' = [rpc EXCEPT ![r] = "done"]
  /\ UNCHANGED <<sinkVars, unitVars, now, monitorVars, cpc, nextFire, rn, rk, rticks, rfailedAt, lastTick>>

CollectorSaveTicksDataFail(r) ==
  /\ cpc # "fatal" /\ rpc[r] = "saveTicks"
  /\ CollectDataCatch(r, "saveTicks")
  /\ UNCHANGED <<sinkVars, unitVars, now, monitorVars, cpc, lastSuccessfulCollection, nextFire, rn, rk,
                 rticks, lastTick>>

\* the collectData() awaited by a timer callback has returned: the callback returns
CallbackReturn(r) ==
  /\ cpc = "armed" /\ rpc[r] \in RunEnded
  /\ RunGone(r)
  /\ UNCHANGED <<sinkVars, unitVars, now, monitorVars, cpc, lastSuccessfulCollection, nextFire, lastTick>>

\* faulty variant: a gap of exactly the minimum is skipped too
TooSoonInclusive(t) == t <= MIN_COLLECTION_INTERVAL

\* timeSinceLastCollection < COLLECTION_CONFIG.MIN_COLLECTION_INTERVAL
TooSoon(t) == t < MIN_COLLECTION_INTERVAL

\* the timer fires and the callback skips this collection cycle
TimerSkip ==
  /\ cpc = "armed" /\ now = nextFire
  /\ TooSoon(now - lastSuccessfulCollection)
  /\ nextFire' = nextFire + INTERVAL
  /\ lastTick' = "skipped"
  /\ UNCHANGED <<sinkVars, unitVars, now, monitorVars, cpc, lastSuccessfulCollection, rpc, rn, rk, rticks,
                 rfailedAt>>

\* the timer fires and the callback calls collectData(), in the lowest free slot
TimerCollect ==
  /\ cpc = "armed" /\ now = nextFire
  /\ ~TooSoon(now - lastSuccessfulCollection)
  /\ \E r \in Runs :
       /\ rpc[r] = "idle"
       /\ \A q \in Runs : rpc[q] = "idle" => r <= q
       /\ CollectData(r)
  /\ nextFire' = nextFire + INTERVAL
  /\ lastTick' = "collected"
  /\ UNCHANGED <<sinkVars, unitVars, now, monitorVars, cpc, lastSuccessfulCollection>>

\* the clock advances; a timer that is due fires before it moves on
CollectorTick ==
  /\ cpc # "fatal"
  /\ now < StartTime + MaxCollectorTicks * CollectorTimeStep
  /\ cpc = "armed" => now < nextFire
  /\ now' = now + CollectorTimeStep
  /\ UNCHANGED <<sinkVars, unitVars, monitorVars, collectorVars>>

CollectorNext ==
  \/ CollectorEnsureOk
  \/ CollectorEnsureFail
  \/ FirstCollectDone
  \/ TimerSkip
  \/ TimerCollect
  \/ CollectorTick
  \/ \E r \in Runs :
       \/ \E n \in 0..MaxSnapshots : GetAllPoolsDataOk(r, n)
       \/ GetAllPoolsDataFail(r)
       \/ CollectorSavePoolDataOk(r)
       \/ CollectorSavePoolDataFail(r)
       \/ GetAllTicksDataOk(r)
       \/ GetAllTicksDataFail(r)
       \/ CollectorSaveTicksDataOk(r)
       \/ CollectorSaveTicksDataFail(r)
       \/ CallbackReturn(r)

CollectorSpec == CollectorSpecInit /\ [][CollectorNext]_vars

(* ---------------- the sink (services/database.ts) ---------------- *)
\* primary keys: (timestamp, pool_address) of a snapshot, (timestamp, pool_address,
\* tick_index) of a tick; the non-key fields of a snapshot or tick as one value
Keys == 1..NumKeys
Vals == 1..NumVals
\* data.volume24h: optional, possibly 0
Volumes == {Undefined, 0, 1}
\* IPoolData and ITickData as the sink reads them
Snapshots == [key : Keys, val : Vals, volume24h : Volumes]
TickData == [key : Keys, val : Vals]
TickLists == UNION {[1..n -> TickData] : n \in 0..MaxTickList}
\* errors the store can raise on a statement
StoreErrors == {"connection", "constraint"}
SinkUses == {"savePoolData", "saveTicksData"}

\* only the sink runs, driven by a caller that uses one of its two methods
SinkSpecInit == sinkUse \in SinkUses /\ UnitsIdle /\ ProgramInit /\ cfg = MainScenario

\* the parameters of INSERT_POOL_DATA and of INSERT_PRICE_DATA, as the row they give
PoolRow(data) == [key |-> data.key, val |-> data.val]
PriceRow(data) ==
  [key |-> data.key, val |-> data.val, volume |-> OrElse(data.volume24h, 0)]
\* values: the row of a tick
TickRow(tick) == [key |-> tick.key, val |-> tick.val]

\* faulty variant: a plain INSERT, the row is added beside the one of the same key
UpsertNoConflict(table, row) == table \cup {row}
\* faulty variant: ON CONFLICT DO NOTHING, the stored row is kept
UpsertKeepOld(table, row) ==
  IF \E r \in table : r.key = row.key THEN table ELSE table \cup {row}

\* INSERT ... ON CONFLICT (key) DO UPDATE SET every non-key column = EXCLUDED
Upsert(table, row) == {r \in table : r.key # row.key} \cup {row}

\* one multi-row INSERT ... ON CONFLICT DO UPDATE over the ticks of the list
RECURSIVE UpsertAll(_, _)
UpsertAll(table, ticks) ==
  IF ticks = <<>> THEN table
  ELSE UpsertAll(Upsert(table, TickRow(Head(ticks))), Tail(ticks))

\* the statement proposes two rows of one key: the store rejects it (ON CONFLICT DO
\* UPDATE command cannot affect row a second time)
HasDuplicateKey(ticks) ==
  \E i, j \in 1..Len(ticks) : i # j /\ ticks[i].key = ticks[j].key

\* faulty variant: the writes of the failed transaction stay
AfterRollbackKeepsWrites(committed, inTx) == inTx

\* db.tx: the callback rejected, ROLLBACK: the table is as it was committed
AfterRollback(committed, inTx) == committed

\* faulty variant: the error is replaced by one of the sink's own
RethrowWrapped(err) == "sink"

\* catch (error) { logger.error(...); throw error; }
Rethrow(err) == err

\* faulty variant: the guard is missing, a statement is built for the empty list
IsEmptyListNever(data) == FALSE

\* if (!data.length) return;
IsEmptyList(data) == Len(data) = 0

\* a row of the key of row was stored with other values
Overwrites(table, row) == \E r \in table : r.key = row.key /\ r # row

\* savePoolData(data) is called: db.tx opens a transaction and its callback awaits
\* the first insert
SavePoolDataCall(data) ==
  /\ sinkUse = "savePoolData" /\ spc = "idle"
  /\ spc' = "insertPool" /\ sarg' = data
  /\ txPool' = poolTable /\ txPrice' = priceTable
  /\ sresult' = "none" /\ serror' = NoError /\ sthrown' = NoError
  /\ sWrites' = 1 /\ sfailedAt' = "none" /\ sOverwrote' = FALSE
  /\ UNCHANGED <<sinkUse, poolTable, priceTable, ticksTable, now, monitorVars,
                 collectorVars, unitVars>>

\* t.none(QUERIES.INSERT_POOL_DATA, ...) resolves: the second insert is awaited
TxInsertPoolOk ==
  /\ spc = "insertPool"
  /\ txPool' = Upsert(txPool, PoolRow(sarg))
  /\ spc' = "insertPrice"
  /\ UNCHANGED <<sinkUse, poolTable, priceTable, ticksTable, sarg, txPrice, sresult,
                 serror, sthrown, sWrites, sfailedAt, sOverwrote, now, monitorVars,
                 collectorVars, unitVars>>

\* t.none(QUERIES.INSERT_PRICE_DATA, ...) resolves: the callback returns, COMMIT
TxInsertPriceOk ==
  /\ spc = "insertPrice"
  /\ txPrice' = Upsert(txPrice, PriceRow(sarg))
  /\ spc' = "commit"
  /\ UNCHANGED <<sinkUse, poolTable, priceTable, ticksTable, sarg, txPool, sresult,
                 serror, sthrown, sWrites, sfailedAt, sOverwrote, now, monitorVars,
                 collectorVars, unitVars>>

\* COMMIT succeeds: db.tx resolves, savePoolData resolves
TxCommitOk ==
  /\ spc = "commit"
  /\ poolTable' = txPool /\ priceTable' = txPrice
  /\ txPool' = {} /\ txPrice' = {}
  /\ spc' = "idle" /\ sarg' = NoArg /\ sresult' = "resolved"
  /\ sOverwrote' = (Overwrites(poolTable, PoolRow(sarg))
                      \/ Overwrites(priceTable, PriceRow(sarg)))
  /\ UNCHANGED <<sinkUse, ticksTable, serror, sthrown, sWrites, sfailedAt, now,
                 monitorVars, collectorVars, unitVars>>

\* the catch block of savePoolData after db.tx rejected with err: the transaction
\* was rolled back; log and rethrow
SavePoolDataCatch(err) ==
  /\ poolTable' = AfterRollback(poolTable, txPool)
  /\ priceTable' = AfterRollback(priceTable, txPrice)
  /\ txPool' = {} /\ txPrice' = {}
  /\ spc' = "idle" /\ sarg' = NoArg /\ sresult' = "rejected"
  /\ serror' = err /\ sthrown' = Rethrow(err)
  /\ sfailedAt' = spc
  /\ UNCHANGED <<sinkUse, ticksTable, sWrites, sOverwrote, now, monitorVars,
                 collectorVars, unitVars>>

\* the first insert, the second insert, or COMMIT fails
TxInsertPoolFail(err) == spc = "insertPool" /\ SavePoolDataCatch(err)
TxInsertPriceFail(err) == spc = "insertPrice" /\ SavePoolDataCatch(err)
TxCommitFail(err) == spc = "commit" /\ SavePoolDataCatch(err)

\* saveTicksData(data) is called: return at once on an empty list, else build the
\* statement and await db.none(query)
SaveTicksDataCall(data) ==
  /\ sinkUse = "saveTicksData" /\ spc = "idle"
  /\ sarg' = data
  /\ serror' = NoError /\ sthrown' = NoError
  /\ sfailedAt' = "none" /\ sOverwrote' = FALSE
  /\ IF IsEmptyList(data)
       THEN spc' = "idle" /\ sresult' = "resolved" /\ sWrites' = 0
       ELSE spc' = "insertTicks" /\ sresult' = "none" /\ sWrites' = 1
  /\ UNCHANGED <<sinkUse, poolTable, priceTable, ticksTable, txPool, txPrice, now,
                 monitorVars, collectorVars, unitVars>>

\* db.none(query) resolves: every tick of the list is stored
InsertTicksOk ==
  /\ spc = "insertTicks" /\ ~HasDuplicateKey(sarg)
  /\ ticksTable' = UpsertAll(ticksTable, sarg)
  /\ spc' = "idle" /\ sarg' = NoArg /\ sresult' = "resolved"
  /\ sOverwrote' = \E i \in 1..Len(sarg) : Overwrites(ticksTable, TickRow(sarg[i]))
  /\ UNCHANGED <<sinkUse, poolTable, priceTable, txPool, txPrice, serror,
                 sthrown, sWrites, sfailedAt, now, monitorVars, collectorVars, unitVars>>

\* db.none(query) rejects: the statement changed nothing; log and rethrow
InsertTicksFail(err) ==
  /\ spc = "insertTicks"
  /\ spc' = "idle" /\ sarg' = NoArg /\ sresult' = "rejected"
  /\ serror' = err /\ sthrown' = Rethrow(err)
  /\ sfailedAt' = spc
  /\ UNCHANGED <<sinkUse, poolTable, priceTable, ticksTable, txPool, txPrice,
                 sWrites, sOverwrote, now, monitorVars, collectorVars, unitVars>>

SinkNext ==
  \/ \E data \in Snapshots : SavePoolDataCall(data)
  \/ TxInsertPoolOk
  \/ TxInsertPriceOk
  \/ TxCommitOk
  \/ \E err \in StoreErrors :
       \/ TxInsertPoolFail(err)
       \/ TxInsertPriceFail(err)
       \/ TxCommitFail(err)
       \/ InsertTicksFail(err)
  \/ \E data \in TickLists : SaveTicksDataCall(data)
  \/ InsertTicksOk

SinkSpec == SinkSpecInit /\ [][SinkNext]_vars

(* ---------------- withRetry (utils/rpc.ts) on its own ---------------- *)
\* what fn can resolve with, and the delays the callers pass
FnValues == {"v1", "v2"}
RetryDelays == {0, RETRY_DELAY}
RetrySettled == {"resolved", "rejected"}

\* only withRetry runs: its arguments are drawn, fn is any function
RetrySpecInit ==
  /\ sinkUse = "none" /\ ProgramInit /\ cfg = MainScenario
  /\ wmax \in 0..MaxRetriesArg /\ wdelay \in RetryDelays
  /\ wpc = "idle" /\ wi = 0
  /\ wlastError = "null" /\ wresult = NoResult /\ wouts = <<>> /\ wwaits = <<>>
  /\ TicksIdle /\ ConnIdle

\* faulty variant: the wait is made after the last attempt too
RetryAgainAlways(i, maxRetries) == i < maxRetries

\* if (i < maxRetries - 1): attempt i failed, is the delay awaited?
RetryAgain(i, maxRetries) == i < maxRetries - 1

\* for (let i = 0; i < maxRetries; ...): is the body entered with index i?
LoopEnters(i, maxRetries) == i < maxRetries

\* the loop head with index i: await fn(), or leave the loop and throw lastError
LoopHead(i) ==
  /\ wi' = i
  /\ IF LoopEnters(i, wmax)
       THEN wpc' = "fn" /\ wresult' = wresult
       ELSE wpc' = "rejected" /\ wresult' = wlastError

\* withRetry(fn, maxRetries, delay) is called: lastError = null, i = 0
WithRetryCall ==
  /\ wpc = "idle"
  /\ LoopHead(0)
  /\ UNCHANGED <<wmax, wdelay, wlastError, wouts, wwaits, sinkVars, now, monitorVars,
                 collectorVars, ticksVars, connVars>>

\* await fn() resolves with v: return it
FnResolves(v) ==
  /\ wpc = "fn"
  /\ wouts' = Append(wouts, v)
  /\ wpc' = "resolved" /\ wresult' = v
  /\ UNCHANGED <<wmax, wdelay, wi, wlastError, wwaits, sinkVars, now, monitorVars,
                 collectorVars, ticksVars, connVars>>

\* await fn() rejects with err: lastError = error; await the delay, or go on to the
\* loop head with i + 1
FnRejects(err) ==
  /\ wpc = "fn"
  /\ wouts' = Append(wouts, err)
  /\ wlastError' = err
  /\ IF RetryAgain(wi, wmax)
       THEN /\ wpc' = "wait" /\ wwaits' = Append(wwaits, wdelay)
            /\ wi' = wi /\ wresult' = wresult
       ELSE /\ wwaits' = wwaits
            /\ wpc' = IF LoopEnters(wi + 1, wmax) THEN "fn" ELSE "rejected"
            /\ wi' = wi + 1
            /\ wresult' = IF LoopEnters(wi + 1, wmax) THEN wresult ELSE err
  /\ UNCHANGED <<wmax, wdelay, sinkVars, now, monitorVars, collectorVars, ticksVars, connVars>>

\* the setTimeout promise resolves: i++, back to the loop head
RetryWaitOver ==
  /\ wpc = "wait"
  /\ LoopHead(wi + 1)
  /\ UNCHANGED <<wmax, wdelay, wlastError, wouts, wwaits, sinkVars, now, monitorVars,
                 collectorVars, ticksVars, connVars>>

RetryNext ==
  \/ WithRetryCall
  \/ \E v \in FnValues : FnResolves(v)
  \/ \E err \in RpcErrors : FnRejects(err)
  \/ RetryWaitOver

RetrySpec == RetrySpecInit /\ [][RetryNext]_vars

(* ---------------- getTicksData's callback on its own ---------------- *)
\* TICK_SPACING of config/pools.ts
TICK_SPACING == [STABLE |-> 1, STANDARD |-> 64, VOLATILE |-> 128]
\* the values pool.tickCurrentIndex is drawn from
CurrentTicks == (0 - MaxCurrentTick)..MaxCurrentTick
\* the values poolConfig.tickSpacing is drawn from: the small ones and the
\* configured ones
TickSpacings ==
  (1..MaxTickSpacing) \cup {TICK_SPACING.STABLE, TICK_SPACING.STANDARD, TICK_SPACING.VOLATILE}
\* poolConfig.address.toString()
PoolAddress == "poolAddress"

TicksSpecInit ==
  /\ sinkUse = "none" /\ ProgramInit /\ cfg = MainScenario /\ RetryIdle /\ ConnIdle
  /\ currentTick \in CurrentTicks /\ tickSpacing \in TickSpacings
  /\ gpc = "idle" /\ tickIndex = 0 /\ timestamp = 0 /\ ticksArr = <<>>

\* const startTick = currentTick - (tickArraySize * tickSpacing * numArrays)
startTick == currentTick - (tickArraySize * tickSpacing * numArrays)
\* const endTick = currentTick + (tickArraySize * tickSpacing * numArrays)
endTick == currentTick + (tickArraySize * tickSpacing * numArrays)

\* faulty variant: the loop stops one tick before endTick
TickLoopEntersStrict(t) == t < endTick

\* tickIndex <= endTick: is the loop body entered with tickIndex = t?
TickLoopEnters(t) == t <= endTick

\* the element pushed in the iteration of tickIndex t (the zero-valued liquidity and
\* fee fields left out)
TickEntry(t) == [timestamp |-> timestamp, poolAddress |-> PoolAddress, tickIndex |-> t]

\* the pool is fetched and initialized: ticks = [], timestamp = new Date(),
\* tickIndex = startTick
TicksBegin ==
  /\ gpc = "idle"
  /\ gpc' = "loop" /\ ticksArr' = <<>> /\ timestamp' = now /\ tickIndex' = startTick
  /\ UNCHANGED <<currentTick, tickSpacing, retryVars, sinkVars, now, monitorVars,
                 collectorVars, connVars>>

\* an iteration of the for loop: ticks.push({...}); tickIndex += tickSpacing
TickPush ==
  /\ gpc = "loop" /\ TickLoopEnters(tickIndex)
  /\ ticksArr' = Append(ticksArr, TickEntry(tickIndex))
  /\ tickIndex' = tickIndex + tickSpacing
  /\ UNCHANGED <<currentTick, tickSpacing, gpc, timestamp, retryVars, sinkVars, now,
                 monitorVars, collectorVars, connVars>>

\* the loop condition fails: return ticks
TicksReturn ==
  /\ gpc = "loop" /\ ~TickLoopEnters(tickIndex)
  /\ gpc' = "returned"
  /\ UNCHANGED <<currentTick, tickSpacing, tickIndex, timestamp, ticksArr, retryVars,
                 sinkVars, now, monitorVars, collectorVars, connVars>>

TicksNext == TicksBegin \/ TickPush \/ TicksReturn

TicksSpec == TicksSpecInit /\ [][TicksNext]_vars

(* ---------------- DatabaseService's connection test on its own ---------------- *)
\* the error codes the error handler of pg-promise tells apart
PgErrorCodes == {"ECONNREFUSED", "ETIMEDOUT", "other"}

\* the constructor has run: isConnected = false, retryCount = 0, and testConnection()
\* was called and awaits db.one
ConnSpecInit ==
  /\ sinkUse = "none" /\ ProgramInit /\ cfg = MainScenario /\ RetryIdle /\ TicksIdle
  /\ isConnected = FALSE /\ retryCount = 0 /\ dpc = "query" /\ dtimer = 0
  /\ connAttempts = 1 /\ connectEvents = 0 /\ failsInARow = 0

\* isHealthy()
isHealthy == isConnected

\* faulty variant: a retry is scheduled while retryCount is MAX_RETRIES too
RetryAllowedInclusive(rc) == rc <= DB_MAX_RETRIES

\* if (this.retryCount < this.MAX_RETRIES)
RetryAllowed(rc) == rc < DB_MAX_RETRIES

\* await db.one resolves: isConnected = true
TestConnectionOk ==
  /\ dpc = "query"
  /\ isConnected' = TRUE /\ dpc' = "connected"
  /\ UNCHANGED <<retryCount, dtimer, connAttempts, connectEvents, failsInARow, retryVars,
                 ticksVars, sinkVars, now, monitorVars, collectorVars>>

\* await db.one rejects: isConnected = false; retryCount++ and setTimeout of
\* testConnection, or the error log
TestConnectionFail ==
  /\ dpc = "query"
  /\ isConnected' = FALSE
  /\ failsInARow' = failsInARow + 1
  /\ IF RetryAllowed(retryCount)
       THEN retryCount' = retryCount + 1 /\ dtimer' = DB_RETRY_DELAY /\ dpc' = "timer"
       ELSE retryCount' = retryCount /\ dtimer' = 0 /\ dpc' = "gaveUp"
  /\ UNCHANGED <<connAttempts, connectEvents, retryVars, ticksVars, sinkVars, now,
                 monitorVars, collectorVars>>

\* the timer fires: testConnection() is called again
RetryTimerFires ==
  /\ dpc = "timer"
  /\ dpc' = "query" /\ dtimer' = 0 /\ connAttempts' = connAttempts + 1
  /\ UNCHANGED <<isConnected, retryCount, connectEvents, failsInARow, retryVars,
                 ticksVars, sinkVars, now, monitorVars, collectorVars>>

\* the connect handler: a connection was acquired from the pool
PgConnect ==
  /\ dpc # "idle" /\ connectEvents < MaxConnectEvents
  /\ isConnected' = TRUE /\ retryCount' = 0
  /\ connectEvents' = connectEvents + 1 /\ failsInARow' = 0
  /\ UNCHANGED <<dpc, dtimer, connAttempts, retryVars, ticksVars, sinkVars, now,
                 monitorVars, collectorVars>>

\* the disconnect handler: a connection was released
PgDisconnect ==
  /\ dpc # "idle"
  /\ isConnected' = FALSE
  /\ UNCHANGED <<retryCount, dpc, dtimer, connAttempts, connectEvents, failsInARow,
                 retryVars, ticksVars, sinkVars, now, monitorVars, collectorVars>>

\* the error handler, called with an error of the given code
PgError(code) ==
  /\ dpc # "idle"
  /\ isConnected' = IF code \in {"ECONNREFUSED", "ETIMEDOUT"} THEN FALSE ELSE isConnected
  /\ UNCHANGED <<retryCount, dpc, dtimer, connAttempts, connectEvents, failsInARow,
                 retryVars, ticksVars, sinkVars, now, monitorVars, collectorVars>>

ConnNext ==
  \/ TestConnectionOk
  \/ TestConnectionFail
  \/ RetryTimerFires
  \/ PgConnect
  \/ PgDisconnect
  \/ \E code \in PgErrorCodes : PgError(code)

ConnSpec == ConnSpecInit /\ [][ConnNext]_vars

(* ======================= claims ======================= *)
\* the delay a pool is made to wait: 0 when it has no entry
DelayFor(p) == IF retryDelays[p] = Undefined THEN 0 ELSE retryDelays[p]

RECURSIVE Pow2(_)
Pow2(n) == IF n = 0 THEN 1 ELSE 2 * Pow2(n - 1)

\* start() invocations that passed the isRunning guard and have not returned
ActiveLoops == {l \in Loops : lpc[l] # "idle"}

\* C1: under every interleaving of start() and stop(), at most one scheduler loop
\* (start() invocation past its guard) is active at any time.
C1_AtMostOneLoop == Cardinality(ActiveLoops) <= 1

\* C2: once stop() has been called during a cycle, no later batch of that cycle is
\* issued (no processPool of a later batch starts).
C2_NoBatchAfterStop ==
  [][\A l \in Loops :
       (stoppedInCycle[l] /\ lpc[l] = "batch")
         => ~(lpc'[l] = "batch" /\ li'[l] > li[l])]_vars

\* C3: at the moment the connection pool is closed, no fetch or sink write of a
\* processPool call is still in flight.
C3_CloseAfterWorkDone ==
  [][poolEndCalls' > poolEndCalls
       => \A l \in Loops : \A p \in PoolIds : ppc[l][p] \notin InFlight]_vars

\* C4: the connection pool is closed at most once, and exactly once if stop() was
\* called at least once.
C4_PoolClosedOnce ==
  /\ poolEndCalls <= 1
  /\ (stops >= 1 => poolEndCalls = 1)

\* C5: after N >= 1 rate-limited failures since the delay was last 0 or unset, the
\* stored delay is min(BASE_RETRY_DELAY * 2^N, MAX_RETRY_DELAY); each rate-limited
\* failure maps the delay d to min(max(d, BASE_RETRY_DELAY) * 2, MAX_RETRY_DELAY).
C5_BackoffSchedule ==
  [][/\ \A p \in PoolIds :
          streak'[p] >= 1 =>
            retryDelays'[p] = Min(BASE_RETRY_DELAY * Pow2(streak'[p]), MAX_RETRY_DELAY)
     /\ \A l \in Loops : \A p \in PoolIds :
          (ppc'[l][p] = "rateLimited" /\ ppc[l][p] # "rateLimited") =>
            retryDelays'[p] =
              Min(Max(DelayFor(p), BASE_RETRY_DELAY) * 2, MAX_RETRY_DELAY)]_vars
\* C5 witness: seven rate-limited failures in a row, the delay held at the cap
C5_Witness ==
  \E p \in PoolIds : streak[p] >= 7 /\ retryDelays[p] = MAX_RETRY_DELAY

\* C6: every pool's stored delay is unset or lies in [0, MAX_RETRY_DELAY].
C6_DelayInRange ==
  \A p \in PoolIds :
    retryDelays[p] = Undefined
      \/ (0 <= retryDelays[p] /\ retryDelays[p] <= MAX_RETRY_DELAY)
\* C6 witness: a processPool has just failed with status 429 at the cap
C6_Witness ==
  \E l \in Loops : \E p \in PoolIds :
    /\ ppc[l][p] = "rateLimited"
    /\ streak[p] = 6
    /\ retryDelays[p] = MAX_RETRY_DELAY

\* C7: when the fetches of a pool succeeded, its delay is 0 once processPool
\* returns, also when the write that follows the fetch fails.
C7_FetchSuccessResetsDelay ==
  [][\A l \in Loops : \A p \in PoolIds :
       (ppc[l][p] \in {"savePool", "saveTicks"} /\ ppc'[l][p] \in Terminal)
         => retryDelays'[p] \in {Undefined, 0}]_vars

\* C8: a processPool failure that is not a rate-limit signal leaves the pool's
\* stored delay as it was.
C8_OtherFailureKeepsDelay ==
  [][\A l \in Loops : \A p \in PoolIds :
       /\ (ppc'[l][p] = "error" /\ ppc[l][p] # "error")
            => retryDelays'[p] = retryDelays[p]
       \* with a single start() no step taken while the call is in flight changes
       \* the entry either, so it is as it was before the call
       /\ (cfg.maxStarts = 1 /\ ppc[l][p] \in InFlight
              /\ ppc'[l][p] \notin {"ok", "rateLimited"})
            => retryDelays'[p] = retryDelays[p]]_vars
\* C8 witness: a sink write failed while the pool had an escalated delay
C8_Witness ==
  \E l \in Loops : \E p \in PoolIds :
    /\ ppc[l][p] = "error"
    /\ failedAt[l][p] = "savePool"
    /\ retryDelays[p] = 2 * BASE_RETRY_DELAY

\* C9 (as claimed): within a cycle a failed fetch is never attempted again, so
\* every fetch in flight is a first attempt.
C9_SingleAttempt ==
  \A l \in Loops : \A p \in PoolIds : tries[l][p] = 0

\* C9 (amended): within a cycle at most MAX_RETRIES attempts are issued per pool for
\* the pool state and at most MAX_RETRIES for the ticks, and a fetch that was left
\* (resolved, or failed for the last time) is not issued again by that processPool.
C9_BoundedRetries ==
  [][\A l \in Loops : \A p \in PoolIds :
       /\ tries'[l][p] + 1 <= MAX_RETRIES
       /\ (tries'[l][p] > 0 => ppc'[l][p] \in {"getPool", "getTicks"})
       /\ (ppc[l][p] \in {"savePool", "getTicks", "saveTicks"}
             => ppc'[l][p] \notin {"sleep", "getPool"})
       /\ (ppc[l][p] = "saveTicks" => ppc'[l][p] # "getTicks")]_vars
\* C9 witness: the fifth attempt of the ticks fetch is in flight
C9_Witness ==
  \E l \in Loops : \E p \in PoolIds :
    ppc[l][p] = "getTicks" /\ tries[l][p] = MAX_RETRIES - 1

\* C10 (as claimed): a processPool that ended with a 429 failure has written no
\* record of its pool in that cycle.
C10_NoWriteOnRateLimit ==
  \A l \in Loops : \A p \in PoolIds :
    ppc[l][p] = "rateLimited" => written[l][p] = {}

\* C10 (amended): a processPool that ended with a 429 failure of the pool fetch has
\* written nothing; one that ended with a 429 failure of the ticks fetch has written
\* the pool row and the price row and no tick row.
C10_RateLimitWrites ==
  \A l \in Loops : \A p \in PoolIds :
    ppc[l][p] = "rateLimited" =>
      \/ failedAt[l][p] = "getPool" /\ written[l][p] = {}
      \/ failedAt[l][p] = "getTicks" /\ written[l][p] = {"pool", "price"}
\* C10 witness: the ticks fetch was rate-limited after the snapshot was saved
C10_Witness ==
  \E l \in Loops : \E p \in PoolIds :
    /\ ppc[l][p] = "rateLimited"
    /\ failedAt[l][p] = "getTicks"
    /\ written[l][p] = {"pool", "price"}

\* processPool calls in flight: sleeping on the backoff, fetching or writing
InFlightCalls == {c \in Loops \X PoolIds : ppc[c[1]][c[2]] \in InFlight}
InFlightOf(l) == {p \in PoolIds : ppc[l][p] \in InFlight}
\* the batch a pool belongs to: its position in the pool list, in slices of BATCH_SIZE
BatchOf(p) == (p - 1) \div BATCH_SIZE
IsPrefix(s, t) == Len(s) <= Len(t) /\ SubSeq(t, 1, Len(s)) = s

\* C11: in every reachable state of the monitor, at most BATCH_SIZE processPool
\* calls are in flight.
C11_InFlightAtMostBatch == Cardinality(InFlightCalls) <= BATCH_SIZE
\* C11 witness: a full batch in flight while more pools than a batch are configured
C11_Witness ==
  Len(cfg.pools) > BATCH_SIZE /\ Cardinality(InFlightCalls) = BATCH_SIZE

\* C12: no processPool of a batch starts while a processPool of another batch of
\* the same start() invocation is in flight (sleeping on its backoff included).
C12_BatchesSequential ==
  [][\A l \in Loops :
       /\ \A p, q \in InFlightOf(l)' : BatchOf(p) = BatchOf(q)
       /\ \A p \in PoolIds :
            (ppc[l][p] \notin InFlight /\ ppc'[l][p] \in InFlight)
              => \A q \in PoolIds : BatchOf(q) # BatchOf(p) => ppc[l][q] \notin InFlight
       /\ (lpc[l] = "batch" /\ lpc'[l] = "batch" /\ li'[l] > li[l])
              => InFlightOf(l) = {}]_vars
\* C12 witness: the first batch is held back only by a member sleeping on its
\* backoff delay; the pools of the second batch have not been started
C12_Witness ==
  \E l \in Loops : \E p \in PoolIds :
    /\ Len(cfg.pools) > BATCH_SIZE /\ lpc[l] = "batch" /\ li[l] = 0
    /\ ppc[l][p] = "sleep"
    /\ \A q \in PoolIds \ {p} :
         IF BatchOf(q) = 0 THEN ppc[l][q] = "ok" ELSE ppc[l][q] = "idle"

\* C13: the pools processed in a cycle are consecutive slices of BATCH_SIZE pools of
\* the ordered pool list (the last one possibly shorter), and a cycle ends only when
\* every pool has been processed exactly once.
C13_EveryPoolOncePerCycle ==
  [][\A l \in Loops :
       LET n == Len(cfg.pools)
           cur == {p \in PoolIds : ppc'[l][p] # "idle"}
           done == Min(li'[l] + BATCH_SIZE, n)
       IN /\ lpc'[l] = "batch" =>
               /\ li'[l] % BATCH_SIZE = 0
               /\ processed'[l] = SubSeq(cfg.pools, 1, done)
               /\ cur = {cfg.pools[k] : k \in (li'[l] + 1)..done}
               /\ Cardinality(cur) = BATCH_SIZE
                    \/ (done = n /\ Cardinality(cur) = n - li'[l])
          /\ lpc'[l] = "sleep" => processed'[l] = cfg.pools
          \* the list of the cycle is dropped only when it is complete
          /\ (lpc[l] = "batch" /\ ~IsPrefix(processed[l], processed'[l]))
               => processed[l] = cfg.pools]_vars
\* C13 witness: a cycle over a list of two batches, the second one shorter, is over
C13_Witness ==
  \E l \in Loops :
    /\ Len(cfg.pools) > BATCH_SIZE /\ Len(cfg.pools) % BATCH_SIZE # 0
    /\ lpc[l] = "sleep" /\ processed[l] = cfg.pools

\* C14: a processPool whose pool has a stored delay d > 0 first waits d and only then
\* issues the fetch; with a delay of 0 or none it issues the fetch at once.
C14_WaitBeforeFetch ==
  [][\A l \in Loops : \A p \in PoolIds :
       /\ (ppc[l][p] \notin InFlight /\ ppc'[l][p] \in InFlight) =>
            IF retryDelays[p] > 0
              THEN ppc'[l][p] = "sleep" /\ sleepMs'[l][p] = retryDelays[p]
              ELSE ppc'[l][p] = "getPool" /\ sleepMs'[l][p] = 0
       /\ (ppc[l][p] # "getPool" /\ ppc'[l][p] = "getPool") =>
            \/ ppc[l][p] = "sleep" /\ sleepMs[l][p] > 0 /\ sleepMs'[l][p] = sleepMs[l][p]
            \/ ppc[l][p] \notin InFlight /\ retryDelays[p] <= 0]_vars
\* C14 witness: the fetch is in flight after a completed wait of 2 * BASE_RETRY_DELAY
C14_Witness ==
  \E l \in Loops : \E p \in PoolIds :
    ppc[l][p] = "getPool" /\ sleepMs[l][p] = 2 * BASE_RETRY_DELAY

\* C15: the failure of one processPool changes neither the loop nor the running flag
\* nor any other processPool of the invocation, and a batch all of whose members
\* have returned, failed or not, lets the next batch start.
C15_FailureStaysInProcessPool ==
  /\ [](\A l \in Loops :
          (/\ ~exited /\ lpc[l] = "batch"
           /\ li[l] + BATCH_SIZE < Len(cfg.pools)
           /\ InFlightOf(l) = {}
           /\ \E p \in PoolIds : ppc[l][p] \in {"rateLimited", "error"})
            => ENABLED BatchDoneNext(l))
  /\ [][\A l \in Loops : \A p \in PoolIds :
          (ppc[l][p] \in InFlight /\ ppc'[l][p] \in {"rateLimited", "error"}) =>
            /\ isRunning' = isRunning
            /\ lpc' = lpc /\ li' = li
            /\ \A q \in PoolIds \ {p} :
                 ppc'[l][q] = ppc[l][q] /\ written'[l][q] = written[l][q]]_vars
\* C15 witness: a pool of the first batch was rate-limited in the first cycle and a
\* pool of the second batch has been processed with success in that cycle
C15_Witness ==
  \E l \in Loops : \E p, q \in PoolIds :
    /\ cfg.maxStarts = 1 /\ cycles = 1
    /\ streak[p] = 1 /\ BatchOf(p) = 0
    /\ lpc[l] = "batch" /\ li[l] = BATCH_SIZE
    /\ ppc[l][q] = "ok" /\ written[l][q] = {"pool", "price", "ticks"}

\* live start() invocations that have begun a cycle
CyclingLoops == {l \in Loops : lpc[l] \in {"batch", "sleep"}}

\* C17: under the discrete clock, a cycle that started at t and whose work took X is
\* followed by the next cycle at t + max(X, FETCH_INTERVAL): after a wait of the
\* remainder when X < FETCH_INTERVAL, at once otherwise; and the cycles of the
\* monitor start at least FETCH_INTERVAL apart.
C17_CyclePacing ==
  [][cfg.timed =>
       /\ \A l \in Loops :
            (lpc[l] \in {"batch", "sleep"} /\ lpc'[l] = "batch"
               /\ (startTime'[l] # startTime[l] \/ cycles' > cycles))
              => /\ startTime'[l] = startTime[l] + Max(elapsed'[l], FETCH_INTERVAL)
                 /\ startTime'[l] = now'
                 /\ lpc[l] = "sleep" <=> elapsed'[l] < FETCH_INTERVAL
       /\ \A l, k \in CyclingLoops' :
            l # k => \/ startTime'[l] - startTime'[k] >= FETCH_INTERVAL
                     \/ startTime'[k] - startTime'[l] >= FETCH_INTERVAL]_vars
\* C17 witness: the second cycle has started one interval after the first, whose
\* work took half an interval
C17_Witness ==
  \E l \in Loops :
    /\ cfg.timed /\ cycles = 2 /\ lpc[l] = "batch"
    /\ elapsed[l] = TimeStep
    /\ startTime[l] = StartTime + FETCH_INTERVAL
\* C17 witness of the other case: the work took longer than the interval and the
\* second cycle started as soon as it was over
C17_WitnessNoWait ==
  \E l \in Loops :
    /\ cfg.timed /\ cycles = 2 /\ lpc[l] = "batch"
    /\ elapsed[l] > FETCH_INTERVAL
    /\ startTime[l] = StartTime + elapsed[l]

\* C19: a start() call made while the monitor is running changes nothing: not the
\* flag, no delay, no loop, no processPool, and it issues no schema setup call.
C19_StartWhileRunningNoEffect ==
  [][(isRunning /\ starts' > starts) =>
       UNCHANGED <<isRunning, retryDelays, lpc, li, startTime, elapsed, ppc, sleepMs,
                   tries, saw429, written, failedAt, poolEndCalls, processed,
                   ensureCalls,
                   schemaReady, cycles>>]_vars
\* C19 witness: start() was called a second time while the first invocation runs
C19_Witness ==
  /\ cfg.limitFails /\ starts = 2 /\ stops = 0 /\ isRunning
  /\ Cardinality(ActiveLoops) = 1

\* C20: a start() invocation calls ensureTablesExist() once, and none of its fetches
\* or sink writes is issued before that call has resolved.
C20_SchemaSetupFirst ==
  \A l \in Loops :
    /\ lpc[l] # "idle" => ensureCalls[l] = 1
    /\ (lpc[l] \in {"batch", "sleep"} \/ \E p \in PoolIds : ppc[l][p] # "idle")
         => schemaReady[l]
    /\ lpc[l] = "ensure" => ~schemaReady[l] /\ \A p \in PoolIds : ppc[l][p] = "idle"
\* C20 witness: in its second cycle an invocation has made one setup call
C20_Witness ==
  \E l \in Loops : \E p \in PoolIds :
    /\ cfg.maxStarts = 1 /\ cycles = 2
    /\ lpc[l] = "batch" /\ ppc[l][p] = "getPool" /\ ensureCalls[l] = 1

\* C16: in the interval collector a savePoolData failure does not keep the
\* persistence calls for the remaining pools and for the ticks from being issued
\* in that run.
C16_SaveFailureIsolated ==
  \A r \in Runs :
    (rpc[r] = "failed" /\ rfailedAt[r] = "savePool") => rk[r] = rn[r] /\ rticks[r]

\* C18: a timer tick of the interval collector that finds less than
\* MIN_COLLECTION_INTERVAL since the last successful collection starts no
\* collectData run and changes neither a run nor lastSuccessfulCollection; any
\* other tick calls collectData.
C18_MinimumGapSkip ==
  [][(cpc = "armed" /\ nextFire' # nextFire) =>
       IF now - lastSuccessfulCollection < MIN_COLLECTION_INTERVAL
         THEN UNCHANGED <<rpc, rn, rk, rticks, rfailedAt, lastSuccessfulCollection>>
         ELSE /\ \E r \in Runs : rpc[r] = "idle" /\ rpc'[r] = "getAllPools"
              /\ lastSuccessfulCollection' = lastSuccessfulCollection]_vars
\* C18 witness: the latest tick was skipped, half the minimum gap after a collection
\* succeeded
C18_Witness ==
  /\ lastTick = "skipped"
  /\ nextFire = now + INTERVAL
  /\ now - lastSuccessfulCollection = CollectorTimeStep
\* C18 witness of the other case: a tick exactly the minimum gap after a success
\* started a collection
C18_WitnessCollected ==
  /\ lastTick = "collected"
  /\ nextFire = now + INTERVAL
  /\ now - lastSuccessfulCollection = MIN_COLLECTION_INTERVAL

\* C21 (as claimed): the step that handles a failed schema setup of a running
\* monitor clears isRunning, begins no cycle, and calls the sink's cleanup.
C21_SetupFailureCleansUp ==
  [][\A l \in Loops :
       (lpc[l] = "ensure" /\ lpc'[l] = "idle" /\ isRunning /\ ~isRunning') =>
          /\ cycles' = cycles
          /\ \A p \in PoolIds : ppc'[l][p] = "idle"
          /\ poolEndCalls' > poolEndCalls]_vars

\* C22: stop() clears the running flag, only start() sets it again, and no cycle
\* begins while it is clear: an invocation that finds it clear after its end-of-cycle
\* sleep returns, and one that finds it clear at the end of a cycle's work does not
\* sleep.
C22_NoCycleAfterStop ==
  [][/\ stops' > stops => ~isRunning'
     /\ (~isRunning /\ isRunning') => starts' > starts
     /\ cycles' > cycles => isRunning
     /\ \A l \in Loops :
          /\ (lpc[l] = "sleep" /\ ~isRunning) => lpc'[l] \in {"sleep", "idle"}
          /\ (lpc[l] = "batch" /\ ~isRunning) => lpc'[l] # "sleep"
          /\ (lpc[l] # "batch" /\ lpc'[l] = "batch") => isRunning]_vars
\* C22 witness: after stop() the only invocation has returned although the run
\* could have begun another cycle
C22_Witness ==
  /\ starts = 1 /\ stops >= 1 /\ ~isRunning
  /\ cycles >= 1 /\ cycles < cfg.maxCycles
  /\ \A l \in Loops : lpc[l] = "idle"
\* C22 witness of the sleep case: stop() was called during the end-of-cycle sleep
C22_WitnessInSleep ==
  \E l \in Loops : lpc[l] = "sleep" /\ ~isRunning /\ starts = 1 /\ stops >= 1
\* C22 witness of the skipped sleep: stop() was called during the cycle's work, whose
\* last batch has settled
C22_WitnessAtCycleEnd ==
  \E l \in Loops :
    /\ lpc[l] = "batch" /\ stoppedInCycle[l] /\ ~isRunning /\ starts = 1
    /\ ~(li[l] + BATCH_SIZE < Len(cfg.pools))
    /\ \A p \in Batch(li[l]) : ppc[l][p] \in Terminal

\* C23 (as claimed): the process has exited on a termination signal only if the
\* collection was stopped and the close of the connection pool was called before.
C23_ExitAfterPoolClose ==
  exited => (~isRunning /\ poolEndCalls >= 1)

\* the delay a pool is left with when it is processed alone: d is its delay before
\* the call, how is the way its processPool returned
AloneDelay(d, how) ==
  CASE how = "ok" -> 0
    [] how = "rateLimited" ->
         Min(Max(IF d = Undefined THEN 0 ELSE d, BASE_RETRY_DELAY) * 2, MAX_RETRY_DELAY)
    [] OTHER -> d

\* C29: a step of the processPool of pool p changes the stored delay of no other
\* pool, in every interleaving of the members of a batch; and once the processPool of
\* p has returned, the delay of p is what processing p alone would have left, given
\* the delay p had when it was called (one start() invocation).
C29_PerPoolDelayOnly ==
  /\ [](cfg.maxStarts = 1 =>
          \A l \in Loops : \A p \in PoolIds :
            ppc[l][p] \in Terminal
              => retryDelays[p] = AloneDelay(delayAtCall[l][p], ppc[l][p]))
  /\ [][\A q \in PoolIds :
          retryDelays'[q] # retryDelays[q] =>
            \E l \in Loops : ppc[l][q] \in InFlight /\ ppc'[l][q] \in Terminal]_vars
\* C29 witness: in a batch of three a rate-limited pool and a pool processed with
\* success have returned while the third is still in flight
C29_Witness ==
  \E l \in Loops : \E p, q, o \in Batch(li[l]) :
    /\ cfg.maxStarts = 1 /\ lpc[l] = "batch"
    /\ ppc[l][p] = "rateLimited" /\ retryDelays[p] = 2 * BASE_RETRY_DELAY
    /\ ppc[l][q] = "ok" /\ retryDelays[q] = 0
    /\ ppc[l][o] \in InFlight /\ retryDelays[o] = Undefined
\* C29 witness of the other order: the rate-limited pool is still fetching (its
\* fourth retry) when the other pool has returned with success
C29_WitnessOtherOrder ==
  \E l \in Loops : \E p, q \in Batch(li[l]) :
    /\ cfg.maxStarts = 1 /\ lpc[l] = "batch"
    /\ ppc[l][p] = "getPool" /\ tries[l][p] = MAX_RETRIES - 1
    /\ ppc[l][q] = "ok" /\ retryDelays[q] = 0

\* the example of C30 has happened in invocation l: the list is [P1, P2], both had
\* no delay when the batch was called, P1 was processed with success and the pool
\* fetch of P2 ended with a rate-limit error
ExampleCycle(l) ==
  /\ cfg.pools = <<1, 2>> /\ lpc[l] = "batch"
  /\ \A p \in PoolIds : delayAtCall[l][p] \in {Undefined, 0}
  /\ ppc[l][1] = "ok"
  /\ ppc[l][2] = "rateLimited" /\ failedAt[l][2] = "getPool"

\* C30 (as claimed): after the example cycle exactly the snapshot of P1 is stored,
\* the delay of P2 is BASE_RETRY_DELAY and the delay of P1 is 0.
C30_ExampleDelayBase ==
  \A l \in Loops :
    ExampleCycle(l) =>
      /\ written[l][1] = {"pool", "price", "ticks"} /\ written[l][2] = {}
      /\ retryDelays[2] = BASE_RETRY_DELAY
      /\ retryDelays[1] = 0

\* C30 (amended): after the example cycle exactly the snapshot of P1 is stored, the
\* delay of P2 is 2 * BASE_RETRY_DELAY and the delay of P1 is 0.
C30_ExampleDelayDoubled ==
  \A l \in Loops :
    ExampleCycle(l) =>
      /\ written[l][1] = {"pool", "price", "ticks"} /\ written[l][2] = {}
      /\ retryDelays[2] = 2 * BASE_RETRY_DELAY
      /\ retryDelays[1] = 0
\* C30 witness: the example cycle in the first cycle of a run
C30_Witness ==
  \E l \in Loops : ExampleCycle(l) /\ cycles = 1 /\ retryDelays[2] = 2000

\* the rows of a table that carry the key k, and the keys a table holds
RowsOf(table, k) == {r \in table : r.key = k}
KeysOf(table) == {r.key : r \in table}
OneRowPerKey(table) == \A k \in Keys : Cardinality(RowsOf(table, k)) <= 1

\* C24: a savePoolData call that resolves leaves exactly one pool row and one price
\* row of the snapshot's key, holding the snapshot's values (volume_24h 0 when the
\* snapshot has none), whatever was stored for the key before, and leaves the rows
\* of every other key as they were; when the stored rows already hold these values
\* the tables do not change. No table ever holds two rows of one key.
C24_LastWriteWins ==
  /\ [](OneRowPerKey(poolTable) /\ OneRowPerKey(priceTable))
  /\ [][(spc = "commit" /\ sresult' = "resolved") =>
          LET k == sarg.key
              vol == IF sarg.volume24h \in {Undefined, 0} THEN 0 ELSE sarg.volume24h
              poolRow == [key |-> k, val |-> sarg.val]
              priceRow == [key |-> k, val |-> sarg.val, volume |-> vol]
          IN /\ RowsOf(poolTable', k) = {poolRow}
             /\ RowsOf(priceTable', k) = {priceRow}
             /\ \A o \in Keys \ {k} :
                  /\ RowsOf(poolTable', o) = RowsOf(poolTable, o)
                  /\ RowsOf(priceTable', o) = RowsOf(priceTable, o)
             /\ (poolRow \in poolTable /\ priceRow \in priceTable)
                  => (poolTable' = poolTable /\ priceTable' = priceTable)]_vars
\* C24 witness: a snapshot has replaced the rows of its key, which held other
\* values, while the rows of another key are stored
C24_Witness ==
  /\ sinkUse = "savePoolData" /\ spc = "idle" /\ sresult = "resolved" /\ sOverwrote
  /\ Cardinality(poolTable) = 2 /\ Cardinality(priceTable) = 2
\* C24 witness of the repeated save: the snapshot stored already was saved again
C24_WitnessSameTwice ==
  /\ sinkUse = "savePoolData" /\ spc = "commit"
  /\ PoolRow(sarg) \in poolTable /\ PriceRow(sarg) \in priceTable

\* C25: the pool table and the price table hold the same set of keys in every
\* state, and a savePoolData call that rejects leaves both tables as they were.
C25_PoolAndPriceAtomic ==
  /\ [](KeysOf(poolTable) = KeysOf(priceTable))
  /\ [][sresult' = "rejected" =>
          (poolTable' = poolTable /\ priceTable' = priceTable)]_vars
\* C25 witness: on empty tables the insert of the price row failed after the insert
\* of the pool row, and no row is stored
C25_Witness ==
  /\ sinkUse = "savePoolData" /\ sresult = "rejected" /\ sfailedAt = "insertPrice"
  /\ poolTable = {} /\ priceTable = {}
\* C25 witness of a failure among successes: a call failed at COMMIT while rows of
\* earlier calls are stored
C25_WitnessCommit ==
  /\ sinkUse = "savePoolData" /\ sresult = "rejected" /\ sfailedAt = "commit"
  /\ Cardinality(poolTable) = 2

\* C26: the tick table never holds two rows of one key; a saveTicksData call that
\* resolves leaves for the key of each of its ticks exactly the row of that tick and
\* leaves the rows of every other key as they were.
C26_TicksUpsert ==
  /\ [](OneRowPerKey(ticksTable))
  /\ [][(spc = "insertTicks" /\ sresult' = "resolved") =>
          /\ \A i \in 1..Len(sarg) :
               RowsOf(ticksTable', sarg[i].key)
                 = {[key |-> sarg[i].key, val |-> sarg[i].val]}
          /\ \A o \in Keys \ {sarg[i].key : i \in 1..Len(sarg)} :
               RowsOf(ticksTable', o) = RowsOf(ticksTable, o)]_vars
\* C26 witness: a list of ticks was stored and replaced a row that held another
\* value, beside the row of another key
C26_Witness ==
  /\ sinkUse = "saveTicksData" /\ spc = "idle" /\ sresult = "resolved" /\ sOverwrote
  /\ Cardinality(ticksTable) = 2
\* C26 witness of a rejected statement: a list that carries one key twice is in flight
C26_WitnessDuplicate ==
  /\ sinkUse = "saveTicksData" /\ spc = "insertTicks" /\ HasDuplicateKey(sarg)

\* C27: saveTicksData called with an empty list issues no statement, resolves, and
\* leaves the three tables as they were; a statement is issued only for a list that
\* is not empty.
C27_EmptyTicksNoOp ==
  [][sinkUse = "saveTicksData" =>
       /\ (spc = "idle" /\ spc' = "idle") =>
            /\ sarg' = <<>> /\ sWrites' = 0 /\ sresult' = "resolved"
            /\ UNCHANGED <<poolTable, priceTable, ticksTable>>
       /\ (spc = "idle" /\ spc' = "insertTicks") => Len(sarg') > 0
       /\ (spc = "idle" /\ sarg' = <<>>) => spc' = "idle"]_vars
\* C27 witness: the empty list was saved after ticks had been stored
C27_Witness ==
  /\ sinkUse = "saveTicksData" /\ spc = "idle" /\ sresult = "resolved"
  /\ sWrites = 0 /\ ticksTable # {}

\* C28: a savePoolData or saveTicksData call whose store write failed has rejected
\* with the error the store raised, has issued its write (db.tx, db.none) once, and
\* no call issues it more than once.
C28_SinkRethrowsNoRetry ==
  /\ sWrites <= 1
  /\ sresult = "rejected" =>
       /\ serror \in StoreErrors /\ sthrown = serror
       /\ sWrites = 1 /\ spc = "idle"
\* C28 witness: savePoolData rejected with the error of the failed COMMIT
C28_Witness ==
  /\ sinkUse = "savePoolData" /\ sresult = "rejected" /\ sfailedAt = "commit"
  /\ sthrown = "constraint"
\* C28 witness of the other method: saveTicksData rejected with the store's error
C28_WitnessTicks ==
  /\ sinkUse = "saveTicksData" /\ sresult = "rejected" /\ sfailedAt = "insertTicks"
  /\ sthrown = "connection"

\* C31: stop() clears the running flag, and once it is clear after a stop(), unless
\* start() is called again and sets it (or the process exits), every start()
\* invocation eventually returns: the monitor reaches the stopped state. Checked
\* where completions are not tied to the bounded clock.
C31_StopEventuallyStops ==
  /\ [][stops' > stops => ~isRunning']_vars
  /\ (~cfg.timed /\ stops >= 1 /\ ~isRunning)
       ~> (ActiveLoops = {} \/ isRunning \/ exited)
\* C31 witness: stop() was called after a cycle had begun, and the only invocation
\* has returned without the process exiting
C31_Witness ==
  /\ ~cfg.timed /\ starts = 1 /\ cfg.maxStarts = 1 /\ stops >= 1 /\ ~exited
  /\ cycles >= 1 /\ ActiveLoops = {} /\ ~isRunning
\* C31 witness of the premise: stop() has been called while the first of two batches
\* is awaited
C31_WitnessPending ==
  /\ ~cfg.timed /\ stops >= 1 /\ ~exited /\ ~isRunning
  /\ \E l \in Loops : lpc[l] = "batch" /\ li[l] = 0 /\ Len(cfg.pools) > BATCH_SIZE
\* cycle c of the run is at its beginning: its first batch has been called and no
\* member has got past its fetch
CycleBegins(c) ==
  /\ cycles = c
  /\ \E l \in Loops :
       /\ lpc[l] = "batch" /\ li[l] = 0
       /\ \A q \in Batch(0) : ppc[l][q] \in {"sleep", "getPool"} /\ tries[l][q] = 0
\* stop() was called or the process has exited
Halted == stops > 0 \/ exited

\* C32: when the schema setup succeeds (the invocation leaves the setup with the
\* running flag set) the first cycle begins; a cycle is left only when the pool fetch
\* of every configured pool has been issued in it; and unless stop() is called or the
\* process exits, a monitor whose setup succeeded goes on to the last cycle of the
\* run and issues the fetch of every pool in it, whatever the pools' history of
\* failures. Checked where completions are not tied to the bounded clock.
C32_EveryPoolEveryCycle ==
  /\ [][/\ cycles' > cycles => CycleBegins(cycles)'
        /\ \A l \in Loops :
             /\ (lpc[l] = "ensure" /\ lpc'[l] # "ensure" /\ isRunning')
                  => (lpc'[l] = "batch" /\ cycles' = cycles + 1)
             /\ (lpc[l] = "batch" /\ (lpc'[l] # "batch" \/ cycles' > cycles))
                  => fetchedIn[l] = PoolIds]_vars
  /\ <>[](\/ cfg.timed \/ Halted \/ ActiveLoops = {}
          \/ /\ cycles = cfg.maxCycles
             /\ \E l \in Loops : fetchedIn[l] = PoolIds)
\* C32 witness: the pool was rate-limited in every cycle so far, and after the wait
\* at the cap its fetch is in flight in the last cycle of the run
C32_Witness ==
  \E l \in Loops : \E p \in PoolIds :
    /\ stops = 0 /\ ~exited /\ cycles = BackoffCycles /\ streak[p] = cycles - 1
    /\ ppc[l][p] = "getPool" /\ sleepMs[l][p] = MAX_RETRY_DELAY
\* C32 witness of the loop not blocked: a pool of the first batch was rate-limited in
\* the first cycle, and in the second cycle the fetch of the pool of the second
\* batch is in flight
C32_WitnessSecondBatch ==
  \E l \in Loops : \E p \in PoolIds :
    /\ stops = 0 /\ ~exited /\ cycles = 2 /\ Len(cfg.pools) = BATCH_SIZE + 1
    /\ BatchOf(p) = 0 /\ streak[p] = 1
    /\ li[l] = BATCH_SIZE /\ ppc[l][BATCH_SIZE + 1] = "getPool"
\* collectData runs that have been called and have not returned
RunsInFlight == {r \in Runs : rpc[r] \notin {"idle"} \cup RunEnded}

\* C33 (as claimed): in the interval collector at most one collectData run is in
\* flight at any time.
C33_OneCollectionInFlight == Cardinality(RunsInFlight) <= 1
\* the first n fn() calls of the withRetry call all rejected
AllRejected(n) == \A k \in 1..n : wouts[k] \in RpcErrors

\* C34: withRetry with maxRetries >= 1 calls fn one call at a time, each call after
\* the rejection of the previous one and one wait of delay; on the first fn() that
\* resolves it resolves with that value and calls fn no more; when maxRetries calls
\* have rejected it rejects with the error of the last one, having waited
\* maxRetries - 1 times: not after the last rejection.
C34_WithRetryContract ==
  /\ [](wmax >= 1 =>
          /\ \A k \in 1..Len(wwaits) : wwaits[k] = wdelay
          /\ wpc = "fn" =>
               /\ Len(wouts) = wi /\ Len(wwaits) = wi /\ wi < wmax
               /\ AllRejected(wi)
          /\ wpc = "wait" =>
               /\ Len(wouts) = wi + 1 /\ Len(wwaits) = wi + 1 /\ wi + 1 < wmax
               /\ AllRejected(wi + 1)
          /\ wpc = "resolved" =>
               /\ Len(wouts) >= 1 /\ Len(wouts) <= wmax
               /\ AllRejected(Len(wouts) - 1)
               /\ wouts[Len(wouts)] \in FnValues
               /\ wresult = wouts[Len(wouts)]
               /\ Len(wwaits) = Len(wouts) - 1
          /\ wpc = "rejected" =>
               /\ Len(wouts) = wmax /\ AllRejected(wmax)
               /\ wresult = wouts[wmax]
               /\ Len(wwaits) = wmax - 1)
  /\ [][(wpc \in RetrySettled) => (UNCHANGED <<wouts, wwaits, wresult, wpc>>)]_vars
\* C34 witness: every one of the MAX_RETRIES calls of the default rejected, the last
\* with another error than the first, and the call rejected after four waits
C34_Witness ==
  /\ wmax = MAX_RETRIES /\ wdelay = RETRY_DELAY /\ wpc = "rejected"
  /\ wouts[1] = "http429" /\ wresult = "other" /\ Len(wwaits) = MAX_RETRIES - 1
\* C34 witness of the success: the third call resolved after two rejections
C34_WitnessResolved ==
  /\ wmax = MAX_RETRIES /\ wpc = "resolved" /\ Len(wouts) = 3 /\ wresult = "v2"
\* C34 witness of a single attempt: maxRetries = 1, no wait at all
C34_WitnessSingle ==
  /\ wmax = 1 /\ wpc = "rejected" /\ wwaits = <<>> /\ Len(wouts) = 1
FetchSteps == {"getPool", "getTicks"}

\* C35: the stored delay of a pool is raised only by the step in which the last
\* attempt (the MAX_RETRIES-th) of one of its fetches rejects with status 429; a fetch
\* that resolves after an attempt rejected with 429 leaves the delay as it is, and a
\* processPool that returns with success leaves it 0; a fetch whose last attempt
\* rejects with another error after an attempt rejected with 429 leaves the delay as
\* it is.
C35_OnlyFinalAttemptEscalates ==
  [][\A p \in PoolIds :
       /\ retryDelays'[p] \notin {retryDelays[p], 0} =>
            \E l \in Loops :
              /\ ppc[l][p] \in FetchSteps /\ tries[l][p] = MAX_RETRIES - 1
              /\ ppc'[l][p] = "rateLimited"
       /\ \A l \in Loops :
            /\ (ppc[l][p] \in FetchSteps /\ saw429[l][p]
                  /\ ppc'[l][p] \in {"savePool", "saveTicks"})
                 => retryDelays'[p] = retryDelays[p]
            /\ (ppc[l][p] # "ok" /\ ppc'[l][p] = "ok") => retryDelays'[p] = 0
            /\ (ppc[l][p] \in FetchSteps /\ saw429[l][p] /\ ppc'[l][p] = "error")
                 => retryDelays'[p] = retryDelays[p]]_vars
\* C35 witness: an attempt of a fetch was rejected with 429, a later attempt resolved,
\* and the processPool has returned with success: the delay the pool had is reset
C35_Witness ==
  \E l \in Loops : \E p \in PoolIds :
    /\ saw429[l][p] /\ ppc[l][p] = "ok"
    /\ delayAtCall[l][p] = 2 * BASE_RETRY_DELAY /\ retryDelays[p] = 0
\* C35 witness of the other case: after an attempt rejected with 429 the last attempt
\* of the pool fetch rejected with another error, and the delay is as it was
C35_WitnessOtherLast ==
  \E l \in Loops : \E p \in PoolIds :
    /\ saw429[l][p] /\ ppc[l][p] = "error" /\ failedAt[l][p] = "getPool"
    /\ cfg.maxStarts = 1
    /\ delayAtCall[l][p] = 2 * BASE_RETRY_DELAY /\ retryDelays[p] = 2 * BASE_RETRY_DELAY
\* C35 witness of no escalation by an earlier attempt: the fetch that followed an
\* attempt rejected with 429 has resolved and the pool has still no delay
C35_WitnessResolved ==
  \E l \in Loops : \E p \in PoolIds :
    /\ saw429[l][p] /\ ppc[l][p] = "savePool" /\ retryDelays[p] = Undefined
Failed == {"rateLimited", "error"}
\* the rows a processPool has written when step is the step it is at, or failed at
WrittenBefore(step) ==
  IF step \in {"getTicks", "saveTicks"} THEN {"pool", "price"} ELSE {}

\* C36: a processPool goes through fetch pool state, save snapshot, fetch ticks, save
\* ticks in this order, entering a step only from the one before it, when that one
\* succeeded; what it has written is what the steps before the current one write, so
\* tick rows are written only after the snapshot of the same cycle; and a step that
\* fails ends the call: nothing more is written and no later step is entered before
\* the next cycle calls processPool again.
C36_StepsInOrder ==
  /\ [](\A l \in Loops : \A p \in PoolIds :
          /\ ppc[l][p] \in InFlight => written[l][p] = WrittenBefore(ppc[l][p])
          /\ ppc[l][p] = "ok" => written[l][p] = {"pool", "price", "ticks"}
          /\ ppc[l][p] \in Failed =>
               /\ failedAt[l][p] \in {"getPool", "savePool", "getTicks", "saveTicks"}
               /\ written[l][p] = WrittenBefore(failedAt[l][p]))
  /\ [][\A l \in Loops : \A p \in PoolIds :
          /\ (ppc'[l][p] = "savePool" /\ ppc[l][p] # "savePool") => ppc[l][p] = "getPool"
          /\ (ppc'[l][p] = "getTicks" /\ ppc[l][p] # "getTicks") => ppc[l][p] = "savePool"
          /\ (ppc'[l][p] = "saveTicks" /\ ppc[l][p] # "saveTicks") => ppc[l][p] = "getTicks"
          /\ (ppc'[l][p] = "ok" /\ ppc[l][p] # "ok") => ppc[l][p] = "saveTicks"
          /\ ("ticks" \in written'[l][p] /\ "ticks" \notin written[l][p])
               => {"pool", "price"} \subseteq written[l][p]
          /\ (ppc'[l][p] \in Failed /\ ppc[l][p] \notin Failed) =>
               /\ failedAt'[l][p] = ppc[l][p]
               /\ written'[l][p] = written[l][p]
          /\ (ppc[l][p] \in Failed /\ ppc'[l][p] # ppc[l][p]) =>
               \/ ppc'[l][p] = "idle"
               \/ cycles' > cycles /\ ppc'[l][p] \in {"sleep", "getPool"}]_vars
\* C36 witness: the write of the ticks failed after the snapshot of the cycle was
\* written, while another pool of the batch went through its four steps
C36_Witness ==
  \E l \in Loops : \E p, q \in PoolIds :
    /\ ppc[l][p] = "error" /\ failedAt[l][p] = "saveTicks"
    /\ written[l][p] = {"pool", "price"}
    /\ ppc[l][q] = "ok" /\ written[l][q] = {"pool", "price", "ticks"}
\* C36 witness of the first step failing: the pool fetch failed and nothing was
\* written for the pool, in the second cycle of the run
C36_WitnessFirstStep ==
  \E l \in Loops : \E p \in PoolIds :
    /\ ppc[l][p] = "error" /\ failedAt[l][p] = "getPool" /\ written[l][p] = {}
    /\ cycles = 2
\* C37: in the interval collector lastSuccessfulCollection changes only in the step
\* that ends a collectData run whose pool fetch, every savePoolData, tick fetch and
\* saveTicksData succeeded, and it becomes the time of that step; the step in which a
\* run fails leaves it as it was; and it never decreases.
C37_StampOnlyOnSuccess ==
  /\ [](\A r \in Runs :
          rpc[r] \in {"getAllTicks", "saveTicks", "done"} => rk[r] = rn[r])
  /\ [][/\ lastSuccessfulCollection' >= lastSuccessfulCollection
        /\ lastSuccessfulCollection' # lastSuccessfulCollection =>
             /\ lastSuccessfulCollection' = now
             /\ \E r \in Runs :
                  /\ rpc[r] = "saveTicks" /\ rpc'[r] = "done"
                  /\ rticks[r] /\ rk[r] = rn[r] /\ rfailedAt'[r] = "none"
        /\ \A r \in Runs :
             /\ (rpc[r] # "failed" /\ rpc'[r] = "failed")
                  => lastSuccessfulCollection' = lastSuccessfulCollection
             /\ (rpc[r] # "done" /\ rpc'[r] = "done")
                  => lastSuccessfulCollection' = now]_vars
\* C37 witness: a run started by the timer failed in saveTicksData, an interval after
\* the first collection succeeded, and the timestamp is still the one of the first
C37_Witness ==
  \E r \in Runs :
    /\ cpc = "armed" /\ rpc[r] = "failed" /\ rfailedAt[r] = "saveTicks"
    /\ lastSuccessfulCollection = StartTime /\ now >= StartTime + INTERVAL
\* C37 witness of the next tick: two intervals after the last success the timer has
\* started a collection, the run of the tick before having failed
C37_WitnessNextTick ==
  /\ lastTick = "collected" /\ nextFire = now + INTERVAL
  /\ lastSuccessfulCollection = StartTime /\ now = StartTime + 2 * INTERVAL
  /\ \E r \in Runs : rpc[r] = "failed"

\* the (timestamp, pool_address, tick_index) key of a tick
TickKey(t) == <<t.timestamp, t.poolAddress, t.tickIndex>>

\* C38: the ticks getTicksData returns for current tick c and spacing s >= 1 have the
\* indices c - 880*s + k*s, k = 0..1760, in this order: 1761 ticks, consecutive
\* indices differ by exactly s, the range is symmetric around c and contains it, all
\* ticks carry one timestamp and one pool address, and their keys are pairwise
\* distinct.
C38_TickRange ==
  (gpc = "returned" /\ tickSpacing >= 1) =>
    /\ Len(ticksArr) = 1761
    /\ \A k \in 0..1760 : ticksArr[k + 1].tickIndex = currentTick - 880 * tickSpacing + k * tickSpacing
    /\ \A k \in 1..(Len(ticksArr) - 1) : ticksArr[k + 1].tickIndex - ticksArr[k].tickIndex = tickSpacing
    /\ currentTick - ticksArr[1].tickIndex = ticksArr[Len(ticksArr)].tickIndex - currentTick
    /\ \E k \in 1..Len(ticksArr) : ticksArr[k].tickIndex = currentTick
    /\ \A k \in 1..Len(ticksArr) :
         ticksArr[k].timestamp = ticksArr[1].timestamp /\ ticksArr[k].poolAddress = ticksArr[1].poolAddress
    /\ Cardinality({ticksArr[k].tickIndex : k \in 1..Len(ticksArr)}) = Len(ticksArr)
    /\ Cardinality({TickKey(ticksArr[k]) : k \in 1..Len(ticksArr)}) = Len(ticksArr)

\* the ticks of a pool with a negative current tick and the volatile spacing were
\* returned
C38_Witness ==
  /\ gpc = "returned" /\ currentTick < 0 /\ tickSpacing = TICK_SPACING.VOLATILE
  /\ Len(ticksArr) = 1761

\* the ticks of a pool with a positive current tick and spacing 2 were returned: the
\* current tick is odd and the indices are odd
C38_WitnessOdd ==
  /\ gpc = "returned" /\ currentTick = 1 /\ tickSpacing = 2
  /\ ticksArr[1].tickIndex = 0 - 1759

\* C39: retryCount never exceeds MAX_RETRIES (5); without a connect event at most 6
\* attempts are made, and the sixth failure in a row since the latest connect event
\* schedules no further attempt; a failed attempt leaves isHealthy() false and a
\* successful one leaves it true.
C39_ConnectionRetriesBounded ==
  /\ [](/\ retryCount <= 5
        /\ failsInARow <= 6
        /\ connectEvents = 0 => connAttempts <= 6)
  /\ [][(dpc = "query" /\ dpc' # "query") =>
          /\ dpc' = "connected" => isHealthy'
          /\ dpc' # "connected" => (~isHealthy' /\ failsInARow' = failsInARow + 1)
          /\ failsInARow' = 6 => (dpc' = "gaveUp" /\ dtimer' = 0)
          /\ (dpc' # "connected" /\ failsInARow' < 6) => (dpc' = "timer" /\ dtimer' = 5000)]_vars
  /\ [][dpc = "gaveUp" => (dpc' = "gaveUp" /\ dtimer' = 0 /\ connAttempts' = connAttempts)]_vars

\* the sixth attempt in a row failed without any connect event: nothing is scheduled
C39_Witness ==
  /\ dpc = "gaveUp" /\ connectEvents = 0 /\ connAttempts = 6 /\ failsInARow = 6
  /\ retryCount = 5 /\ ~isHealthy /\ dtimer = 0

\* an attempt succeeded after failed ones
C39_WitnessConnected ==
  /\ dpc = "connected" /\ isHealthy /\ connAttempts = 3 /\ retryCount = 2

\* a connect event reset retryCount while the retries ran: more than six attempts
\* were made before the test gave up
C39_WitnessReset ==
  /\ dpc = "gaveUp" /\ connectEvents = 1 /\ connAttempts > 6 /\ failsInARow = 6
====
